---- MODULE Spec2Model ----
(***************************************************************************)
(* State-machine model of the screenshot utility:                          *)
(*   - DrawingArea (src/src/annotation_window.py): bitmap, tools and the   *)
(*     bounded undo/redo history;                                          *)
(*   - ScreenCaptureOverlay with its ScreenshotApp parent                  *)
(*     (src/src/screen_capture.py, src/src/screenshot_app.py);             *)
(*   - ScreenshotUtilService preferences and its hotkey listener thread    *)
(*     (src/src/service_app.py);                                           *)
(*   - the processes started from run.py and src/main.py with the service  *)
(*     lock file, and the direct-capture handler of run.py.                *)
(* Each component has its own specification (SpecDraw, SpecCapture,        *)
(* SpecWindows, SpecDirect, SpecService, SpecRun); the variables of the    *)
(* other components stay at their initial values.                          *)
(***************************************************************************)
EXTENDS Integers, Sequences, FiniteSets, TLC

VARIABLES
    \* ---- DrawingArea ----
    pixmap,          \* self.pixmap: the set of painted pixels of the canvas row
    history,         \* self.history: sequence of bitmap snapshots
    history_index,   \* self.history_index, 0-based as in the code
    drawing,         \* self.drawing
    tool,            \* self.tool
    last_point,      \* self.last_point
    da_start_point,  \* DrawingArea.start_point
    da_event,        \* the last DrawingArea handler that ran and the branch
                     \* it took (history variable)
    \* ---- ScreenCaptureOverlay and its ScreenshotApp parent ----
    is_macos,          \* self.is_macos (sys.platform == "darwin")
    origin,            \* top-left of self.screen_geometry, the overlay's origin
    background_image,  \* self.background_image
    overlay_visible,   \* whether the overlay widget is shown
    start_point,       \* ScreenCaptureOverlay.start_point
    end_point,         \* ScreenCaptureOverlay.end_point
    is_capturing,      \* self.is_capturing
    parent_visible,    \* whether the overlay's parent widget is shown
    annotation_window, \* the parent's annotation_window attribute: "None", or
                       \* "open" when it refers to an annotation window
    open_annotations,  \* number of annotation windows that are open
    capture_timer,     \* QTimer.singleShot(300, self._delayed_capture) pending
    bg_attempts,       \* background methods tried by the last start_capture
    attempts,          \* region strategies tried in the current session
    callbacks,         \* on_capture_complete calls of the current session
    parent_kind,       \* the overlay's parent: "ScreenshotApp" (default UI)
                       \* or "DirectCaptureHandler" (direct capture)
    status_messages,   \* statusBar().showMessage calls of the current session
    quit_timer,        \* QTimer.singleShot(500, app.quit) pending
    app_running,       \* app.exec() has not returned
    ov_start_calls,    \* calls of the overlay's start_capture since the last
                       \* ScreenshotApp.start_capture (history variable)
    uncaught,          \* an exception left the last overlay handler
    session_files,     \* files holding screenshot pixels that the program
                       \* wrote during the current session and left on disk
    \* ---- ScreenshotUtilService preferences and hotkey listener ----
    svc_state,         \* "stopped", "running", or "crashed" (__init__ raised)
    preferences,       \* self.preferences, a Python value
    prefs_file,        \* ~/.screenshot_util_preferences.json
    svc_event,         \* the last service operation and the branch it took
                       \* (history variable)
    svc_read_ok,       \* the last load_preferences met no I/O error
                       \* (history variable)
    svc_save_ok,       \* the last operation called save_preferences and the
                       \* write raised no I/O error (history variable)
    saved,             \* the record last written by save_preferences, while
                       \* the file is as written (history variable)
    hotkey_listener,   \* self.hotkey_listener: whether its pynput listener
                       \* thread runs, and the hotkey it was started with
    service_calls,     \* the steps of the last take_screenshot of the
                       \* service, each with the thread it ran on; empty
                       \* after any other operation (history variable)
    plist_installed,   \* ~/Library/LaunchAgents/com.user.screenshotutil.plist
                       \* exists
    auto_launch_title, \* the status in the title of self.auto_launch_menu:
                       \* "Enabled", "Disabled", or "none" with no menu
    old_listeners,     \* number of pynput listener threads that stop() has
                       \* left behind: its join(0.5) timed out while the
                       \* thread was inside on_key_press
    \* ---- processes started from run.py and src/main.py ----
    proc_pc,           \* per process: where it is in main()
    proc_mode,         \* per process: the run mode main() selected
    proc_fd,           \* per process: inode its lock_file is open on, 0 if none
    proc_status,       \* per process: its last exit status, -1 before any
    proc_event,        \* the last step of main() taken (history variable)
    lock_path,         \* inode ~/.screenshot_util.lock names, 0 if no file
    flock_holder       \* per inode: the process holding LOCK_EX, 0 if none

da_vars == <<pixmap, history, history_index, drawing, tool, last_point,
             da_start_point, da_event>>

cap_vars == <<is_macos, origin, background_image, overlay_visible, start_point,
              end_point, is_capturing, parent_visible, annotation_window,
              open_annotations,
              capture_timer, bg_attempts, attempts, callbacks, parent_kind,
              status_messages, quit_timer, app_running, ov_start_calls,
              uncaught, session_files>>

svc_vars == <<svc_state, preferences, prefs_file, svc_event, svc_read_ok,
              svc_save_ok, saved>>

hk_vars == <<hotkey_listener, service_calls, old_listeners, plist_installed,
             auto_launch_title>>

run_vars == <<proc_pc, proc_mode, proc_fd, proc_status, proc_event, lock_path,
              flock_holder>>

vars == <<da_vars, cap_vars, svc_vars, hk_vars, run_vars>>

(***************************************************************************)
(*                              DrawingArea                                *)
(***************************************************************************)

\* Width of the modelled canvas row; event positions are its pixels.
CanvasW == 1

\* len(self.history) > 20 evicts the oldest snapshot.
MaxHistory == 20

Points == 0 .. (CanvasW - 1)

Tools == {"pen", "line", "arrow", "rectangle"}

ShapeTools == {"line", "arrow", "rectangle"}

Min(a, b) == IF a <= b THEN a ELSE b

Max(a, b) == IF a >= b THEN a ELSE b

\* Pixels of the canvas row covered by a stroke from a to b.
Span(a, b) == Min(a, b) .. Max(a, b)

\* painter.drawLine(self.last_point, end_point) on self.pixmap
DrawLineTo(pm, from, to) == pm \cup Span(from, to)

\* painter.drawLine(start_point, end_point) on self.pixmap
DrawLine(pm, from, to) == pm \cup Span(from, to)

\* the line, and the two head strokes when length > 0; on the canvas row the
\* head strokes leave the row at end_point, which the line already covers
DrawArrow(pm, from, to) == pm \cup Span(from, to)

\* painter.drawRect(min x, y, |dx|, |dy|): on the canvas row the outline is
\* the row segment between the two points
DrawRectangle(pm, from, to) == pm \cup Span(from, to)

\* Python list.pop(0)
PopFront(s) == SubSeq(s, 2, Len(s))

\* _add_to_history without the 20-snapshot limit
AddToHistory_NoLimit(h, i, pm) ==
    [h |-> Append(SubSeq(h, 1, Min(Len(h), i + 1)), pm), i |-> i + 1]

\* _add_to_history that appends without removing the forward history
AddToHistory_NoTrunc(h, i, pm) ==
    LET app == Append(h, pm)
    IN  IF Len(app) > MaxHistory
        THEN [h |-> PopFront(app), i |-> i]
        ELSE [h |-> app, i |-> i + 1]

\* _add_to_history that evicts the oldest snapshot and leaves the cursor
AddToHistory_NoIndexFix(h, i, pm) ==
    LET app == Append(SubSeq(h, 1, Min(Len(h), i + 1)), pm)
    IN  IF Len(app) > MaxHistory
        THEN [h |-> PopFront(app), i |-> i + 1]
        ELSE [h |-> app, i |-> i + 1]

\* DrawingArea._add_to_history applied to (history, history_index, pixmap);
\* the history is a 1-based sequence, history_index stays 0-based.
AddToHistory(h, i, pm) ==
    LET trunc == SubSeq(h, 1, Min(Len(h), i + 1))
        app   == Append(trunc, pm)
        i1    == i + 1
    IN  IF Len(app) > MaxHistory
        THEN [h |-> PopFront(app), i |-> i1 - 1]
        ELSE [h |-> app, i |-> i1]

\* DrawingArea.__init__: one snapshot of the untouched screenshot
DaInit ==
    /\ pixmap = {}
    /\ history = << {} >>
    /\ history_index = 0
    /\ drawing = FALSE
    /\ tool = "pen"
    /\ last_point = 0
    /\ da_start_point = 0
    /\ da_event = "init"

\* DrawingArea.set_tool
SetTool(t) ==
    /\ tool' = t
    /\ da_event' = "set_tool"
    /\ UNCHANGED <<pixmap, history, history_index, drawing, last_point,
                   da_start_point>>

\* DrawingArea.mousePressEvent
DaMousePress(button, pos) ==
    /\ da_event' = "press"
    /\ IF button = "left"
       THEN /\ last_point' = pos
            /\ drawing' = TRUE
            /\ da_start_point' = pos
       ELSE UNCHANGED <<last_point, drawing, da_start_point>>
    /\ UNCHANGED <<pixmap, history, history_index, tool>>

\* mouseMoveEvent that draws the stroke for every tool
DaMouseMove_AllTools(leftHeld, pos) ==
    /\ da_event' = IF leftHeld THEN "move_left" ELSE "move"
    /\ IF leftHeld /\ drawing
       THEN /\ pixmap' = DrawLineTo(pixmap, last_point, pos)
            /\ last_point' = pos
       ELSE UNCHANGED <<pixmap, last_point>>
    /\ UNCHANGED <<history, history_index, drawing, tool, da_start_point>>

\* mouseMoveEvent that adds a snapshot for every pen segment
DaMouseMove_SnapshotPerSegment(leftHeld, pos) ==
    /\ da_event' = IF leftHeld THEN "move_left" ELSE "move"
    /\ IF leftHeld /\ drawing /\ tool = "pen"
       THEN LET pm == DrawLineTo(pixmap, last_point, pos)
                r  == AddToHistory(history, history_index, pm)
            IN  /\ pixmap' = pm
                /\ last_point' = pos
                /\ history' = r.h
                /\ history_index' = r.i
       ELSE UNCHANGED <<pixmap, last_point, history, history_index>>
    /\ UNCHANGED <<drawing, tool, da_start_point>>

\* DrawingArea.mouseMoveEvent; leftHeld is event.buttons() & LeftButton
DaMouseMove(leftHeld, pos) ==
    /\ da_event' = IF leftHeld THEN "move_left" ELSE "move"
    /\ IF leftHeld /\ drawing
       THEN IF tool = "pen"
            THEN /\ pixmap' = DrawLineTo(pixmap, last_point, pos)
                 /\ last_point' = pos
            ELSE UNCHANGED <<pixmap, last_point>>
       ELSE UNCHANGED <<pixmap, last_point>>
    /\ UNCHANGED <<history, history_index, drawing, tool, da_start_point>>

\* DrawingArea.mouseReleaseEvent, _add_to_history included
DaMouseRelease(button, pos) ==
    /\ da_event' = IF button = "left" /\ drawing
                   THEN IF history_index < Len(history) - 1
                        THEN "commit_after_undo" ELSE "commit"
                   ELSE "release"
    /\ IF button = "left" /\ drawing
       THEN LET pm == CASE tool = "pen"       -> DrawLineTo(pixmap, last_point, pos)
                        [] tool = "line"      -> DrawLine(pixmap, da_start_point, pos)
                        [] tool = "arrow"     -> DrawArrow(pixmap, da_start_point, pos)
                        [] tool = "rectangle" -> DrawRectangle(pixmap, da_start_point, pos)
                        [] OTHER              -> pixmap
                r  == AddToHistory(history, history_index, pm)
            IN  /\ pixmap' = pm
                /\ last_point' = IF tool = "pen" THEN pos ELSE last_point
                /\ drawing' = FALSE
                /\ history' = r.h
                /\ history_index' = r.i
       ELSE UNCHANGED <<pixmap, last_point, drawing, history, history_index>>
    /\ UNCHANGED <<tool, da_start_point>>

\* undo that moves the cursor and leaves the bitmap
UndoResult_KeepsPixmap(pm, h, i) ==
    IF i > 0
    THEN [pm |-> pm, h |-> h, i |-> i - 1]
    ELSE [pm |-> pm, h |-> h, i |-> i]

\* the body of DrawingArea.undo on (pixmap, history, history_index)
UndoResult(pm, h, i) ==
    IF i > 0
    THEN [pm |-> h[(i - 1) + 1], h |-> h, i |-> i - 1]
    ELSE [pm |-> pm, h |-> h, i |-> i]

\* redo that moves the cursor and leaves the bitmap
RedoResult_KeepsPixmap(pm, h, i) ==
    IF i < Len(h) - 1
    THEN [pm |-> pm, h |-> h, i |-> i + 1]
    ELSE [pm |-> pm, h |-> h, i |-> i]

\* the body of DrawingArea.redo on (pixmap, history, history_index)
RedoResult(pm, h, i) ==
    IF i < Len(h) - 1
    THEN [pm |-> h[(i + 1) + 1], h |-> h, i |-> i + 1]
    ELSE [pm |-> pm, h |-> h, i |-> i]

\* DrawingArea.undo
Undo ==
    /\ da_event' = "undo"
    /\ LET r == UndoResult(pixmap, history, history_index)
       IN  /\ history_index' = r.i
           /\ pixmap' = r.pm
           /\ history' = r.h
    /\ UNCHANGED <<drawing, tool, last_point, da_start_point>>

\* DrawingArea.redo
Redo ==
    /\ da_event' = "redo"
    /\ LET r == RedoResult(pixmap, history, history_index)
       IN  /\ history_index' = r.i
           /\ pixmap' = r.pm
           /\ history' = r.h
    /\ UNCHANGED <<drawing, tool, last_point, da_start_point>>

\* Qt delivers a move with the left button held only between a left press on
\* the widget and its release, that is only while self.drawing is set.
DaNext ==
    \/ \E t \in Tools : SetTool(t)
    \/ \E b \in {"left", "right"}, p \in Points : DaMousePress(b, p)
    \/ \E l \in BOOLEAN, p \in Points : (l => drawing) /\ DaMouseMove(l, p)
    \/ \E b \in {"left", "right"}, p \in Points : DaMouseRelease(b, p)
    \/ Undo
    \/ Redo


(***************************************************************************)
(*                 ScreenCaptureOverlay and ScreenshotApp                  *)
(***************************************************************************)

\* Widget coordinates of the modelled mouse events.
Coords == {0, 9, 10, 12, 22}

\* The rows of the modelled mouse events.
RowCoords == {0, 12}

Positions == [x : Coords, y : RowCoords]

\* Top-left corners of the combined screen geometry: a single screen, and
\* screens placed left of the primary one.
Origins == {[x |-> 0, y |-> 0], [x |-> -5, y |-> 0], [x |-> -20, y |-> 0]}

\* Sizes of the full-desktop bitmap.
BgSizes == {[w |-> 30, h |-> 30], [w |-> 11, h |-> 11]}

\* QPoint()
NullPoint == [x |-> 0, y |-> 0]

\* Python None in the place of an image
NoneImg == [present |-> FALSE, src |-> "none", x |-> 0, y |-> 0, w |-> 0, h |-> 0]

\* a PIL image: where it came from, and the region of the desktop it shows
Img(src, x, y, w, h) ==
    [present |-> TRUE, src |-> src, x |-> x, y |-> y, w |-> w, h |-> h]

\* one call parent_app.on_capture_complete(img), the code place it comes
\* from, and whether the overlay was shown when the call was made (the calls
\* of CB follow a hide() of the overlay or are made before it is shown)
CB(img, via) == [img |-> img, via |-> via, shown |-> FALSE]

\* a call parent_app.on_capture_complete(img) made while the overlay is shown
CBShown(img, via) == [img |-> img, via |-> via, shown |-> TRUE]

\* QRect(topLeft, bottomRight)
QRectOf(p1, p2) == [x1 |-> p1.x, y1 |-> p1.y, x2 |-> p2.x, y2 |-> p2.y]

\* QRect.width() / QRect.height()
RectWidth(r) == r.x2 - r.x1 + 1

RectHeight(r) == r.y2 - r.y1 + 1

\* QRect.normalized() of Qt 6: a rectangle of negative width or height has
\* its corners swapped and changed from non-inclusive to inclusive
Normalized(r) ==
    [x1 |-> IF r.x2 < r.x1 THEN r.x2 + 1 ELSE r.x1,
     x2 |-> IF r.x2 < r.x1 THEN r.x1 - 1 ELSE r.x2,
     y1 |-> IF r.y2 < r.y1 THEN r.y2 + 1 ELSE r.y1,
     y2 |-> IF r.y2 < r.y1 THEN r.y1 - 1 ELSE r.y2]

\* QWidget.mapToGlobal for the top-level overlay placed at org
MapToGlobal(p, org) == [x |-> p.x + org.x, y |-> p.y + org.y]

\* rect of take_screenshot: QRect(self.start_point, self.end_point).normalized()
SelectionRect(sp, ep) == Normalized(QRectOf(sp, ep))

\* global_rect of take_screenshot as (x, y, width, height)
GlobalRect(rect, org) ==
    LET g == Normalized(QRectOf(MapToGlobal([x |-> rect.x1, y |-> rect.y1], org),
                                MapToGlobal([x |-> rect.x2, y |-> rect.y2], org)))
    IN  [x |-> g.x1, y |-> g.y1, w |-> RectWidth(g), h |-> RectHeight(g)]

\* a "Selection too small" test that looks at the width only
TooSmall_WidthOnly(rect) == RectWidth(rect) < 10

\* "Selection too small" test of take_screenshot
TooSmall(rect) == RectWidth(rect) < 10 \/ RectHeight(rect) < 10

\* guard of the direct region capture of take_screenshot
NativeGuard(g) == g.w > 10 /\ g.h > 10

\* "Handle negative coordinates" of take_screenshot
AdjustNegative(g) ==
    [x |-> IF g.x < 0 THEN 0 ELSE g.x,
     y |-> IF g.y < 0 THEN 0 ELSE g.y,
     w |-> IF g.x < 0 THEN g.w + g.x ELSE g.w,
     h |-> IF g.y < 0 THEN g.h + g.y ELSE g.h]

\* a crop box that is the selection itself, not clamped to the bitmap
CropBox_NoClamp(g, bg) ==
    [x1 |-> g.x, y1 |-> g.y, x2 |-> g.x + g.w, y2 |-> g.y + g.h]

\* "Clamp coordinates to image bounds": the crop box (x1, y1, x2, y2)
CropBox(g, bg) ==
    [x1 |-> Max(0, Min(g.x, bg.w - 1)),
     y1 |-> Max(0, Min(g.y, bg.h - 1)),
     x2 |-> Max(0, Min(g.x + g.w, bg.w)),
     y2 |-> Max(0, Min(g.y + g.h, bg.h))]

\* PIL Image.crop(box)
Crop(box) == Img("crop", box.x1, box.y1, box.x2 - box.x1, box.y2 - box.y1)

\* Outcomes the environment can give the steps of _take_direct_screenshot.
DirectEnvs == [native : {"ok", "fail"}, pyautogui : {"ok", "raise"},
               crop : {"ok", "raise"}, qt : {"ok", "fail"}]

\* ScreenCaptureOverlay._take_direct_screenshot(x, y, width, height): the
\* strategies tried (atts), the calls of on_capture_complete (cbs) and the
\* files it leaves in /tmp (files)
TakeDirectScreenshot(g, bg, macos, d) ==
    LET a1 == IF macos THEN <<"native">> ELSE <<>>
        s1 == IF macos /\ d.native = "ok"
              THEN Img("native", g.x, g.y, g.w, g.h) ELSE NoneImg
        a2 == IF s1.present THEN a1 ELSE a1 \o <<"pyautogui">>
        s2 == IF s1.present THEN s1
              ELSE IF d.pyautogui = "ok"
                   THEN Img("pyautogui", g.x, g.y, g.w, g.h) ELSE NoneImg
        box == CropBox(g, bg)
        a3 == IF ~s2.present /\ bg.present THEN a2 \o <<"crop">> ELSE a2
        s3 == IF ~s2.present /\ bg.present /\ box.x2 > box.x1 /\ box.y2 > box.y1
                 /\ d.crop = "ok"
              THEN Crop(box) ELSE s2
        a4 == IF s3.present THEN a3 ELSE a3 \o <<"qt">>
        s4 == IF s3.present THEN s3
              ELSE IF d.qt = "ok" THEN Img("qt", g.x, g.y, g.w, g.h) ELSE NoneImg
        ok == s4.present /\ s4.w > 0 /\ s4.h > 0
    IN  [atts  |-> a4,
         cbs   |-> IF ok THEN <<CB(s4, "direct")>>
                   ELSE <<CB(NoneImg, "all_failed")>>,
         files |-> IF ok THEN {"screenshot_region_debug"} ELSE {}]

\* Outcomes of the direct region capture of take_screenshot: an image, no
\* usable file (non-zero exit, missing or empty file), or a file that
\* Image.open cannot load.
NativeOutcomes == {"ok", "fail", "load_error"}

\* ScreenCaptureOverlay.take_screenshot for the selection rect.
\*   esc    : an Escape key press is dispatched by the processEvents() call
\*            made while the overlay is still shown (keyPressEvent runs nested)
\*   native : outcome of the direct region capture
\*   crop   : outcome of background_image.crop ("ok" or "raise")
\*   d      : outcomes for _take_direct_screenshot
\* The result names the strategies tried (atts), the calls of
\* on_capture_complete (cbs), the files left in /tmp (files) and whether an
\* exception leaves take_screenshot (raised): without a background image and
\* off macOS, global_x is read before it is bound.
TakeScreenshot(rect, org, bg, macos, esc, native, crop, d) ==
    IF TooSmall(rect)
    THEN [atts |-> <<>>, cbs |-> <<CBShown(NoneImg, "too_small")>>, files |-> {},
          raised |-> FALSE]
    ELSE
    LET c0  == IF esc THEN <<CB(NoneImg, "escape_in_release")>> ELSE <<>>
        g   == GlobalRect(rect, org)
        nat == macos /\ NativeGuard(g)
        a1  == IF nat THEN <<"native">> ELSE <<>>
        f1  == IF nat /\ native = "ok" THEN {"direct_region_capture"}
               ELSE IF nat /\ native = "load_error" THEN {"direct_region"}
               ELSE {}
        adj == AdjustNegative(g)
        box == CropBox(adj, bg)
    IN  IF nat /\ native = "ok"
        THEN [atts |-> a1,
              cbs  |-> c0 \o <<CB(Img("native", g.x, g.y, g.w, g.h), "native")>>,
              files |-> f1, raised |-> FALSE]
        ELSE IF bg.present
        THEN IF adj.w <= 0 \/ adj.h <= 0
             THEN [atts |-> a1 \o <<"crop">>,
                   cbs  |-> c0 \o <<CB(NoneImg, "invalid_dimensions")>>,
                   files |-> f1, raised |-> FALSE]
             ELSE IF box.x2 <= box.x1 \/ box.y2 <= box.y1
             THEN [atts |-> a1 \o <<"crop">>,
                   cbs  |-> c0 \o <<CB(NoneImg, "invalid_crop")>>,
                   files |-> f1, raised |-> FALSE]
             ELSE IF crop = "ok"
             THEN [atts |-> a1 \o <<"crop">>,
                   cbs  |-> c0 \o <<CB(Crop(box), "crop")>>,
                   files |-> f1, raised |-> FALSE]
             ELSE [atts |-> a1 \o <<"crop">>,
                   cbs  |-> c0 \o <<CB(NoneImg, "crop_error")>>,
                   files |-> f1, raised |-> FALSE]
        ELSE IF ~macos
        THEN [atts |-> a1, cbs |-> c0, files |-> f1, raised |-> TRUE]
        ELSE LET r == TakeDirectScreenshot(g, bg, macos, d)
             IN  [atts |-> a1 \o r.atts, cbs |-> c0 \o r.cbs,
                  files |-> f1 \cup r.files, raised |-> FALSE]

\* whether some call of a sequence of on_capture_complete calls carries an image
AnyImage(cbs) == \E i \in 1 .. Len(cbs) : cbs[i].img.present

\* the two widgets run.py gives the overlay as its parent
ParentKinds == {"ScreenshotApp", "DirectCaptureHandler"}

\* on_capture_complete that drops the reference to an annotation window
\* when it is given None
OnCaptureComplete_DropsWindow(kind, img, annot, st) ==
    IF kind = "ScreenshotApp"
    THEN [pv   |-> TRUE,
          aw   |-> IF img.present /\ annot = "ok" THEN "open" ELSE "None",
          msgs |-> IF img.present THEN st.msgs ELSE st.msgs + 1,
          open |-> IF img.present /\ annot = "ok" THEN st.open + 1 ELSE st.open,
          qt   |-> st.qt]
    ELSE [pv   |-> st.pv,
          aw   |-> IF img.present /\ annot = "ok" THEN "open" ELSE st.aw,
          msgs |-> st.msgs,
          open |-> IF img.present /\ annot = "ok" THEN st.open + 1 ELSE st.open,
          qt   |-> st.qt \/ ~img.present]

\* on_capture_complete of ScreenshotApp without its self.show()
OnCaptureComplete_NoShow(kind, img, annot, st) ==
    IF kind = "ScreenshotApp"
    THEN [pv   |-> st.pv,
          aw   |-> IF img.present /\ annot = "ok" THEN "open" ELSE st.aw,
          msgs |-> IF img.present THEN st.msgs ELSE st.msgs + 1,
          open |-> IF img.present /\ annot = "ok" THEN st.open + 1 ELSE st.open,
          qt   |-> st.qt]
    ELSE [pv   |-> st.pv,
          aw   |-> IF img.present /\ annot = "ok" THEN "open" ELSE st.aw,
          msgs |-> st.msgs,
          open |-> IF img.present /\ annot = "ok" THEN st.open + 1 ELSE st.open,
          qt   |-> st.qt \/ ~img.present]

\* on_capture_complete(img) of the overlay's parent, on the parent's state
\* st = (pv: parent shown, aw: annotation window, msgs: status-bar messages,
\* qt: quit timer pending); annot is "raise" when AnnotationWindow() raises.
\*   ScreenshotApp: show(); with an image a new annotation window opens
\*     as a child of the main window and the attribute refers to it (an
\*     exception shows a warning box), without one the status bar shows one
\*     message.
\*   DirectCaptureHandler: with an image the annotation window opens,
\*     without one QTimer.singleShot(500, app.quit).
OnCaptureComplete(kind, img, annot, st) ==
    IF kind = "ScreenshotApp"
    THEN [pv   |-> TRUE,
          aw   |-> IF img.present /\ annot = "ok" THEN "open" ELSE st.aw,
          msgs |-> IF img.present THEN st.msgs ELSE st.msgs + 1,
          open |-> IF img.present /\ annot = "ok" THEN st.open + 1 ELSE st.open,
          qt   |-> st.qt]
    ELSE [pv   |-> st.pv,
          aw   |-> IF img.present /\ annot = "ok" THEN "open" ELSE st.aw,
          msgs |-> st.msgs,
          open |-> IF img.present /\ annot = "ok" THEN st.open + 1 ELSE st.open,
          qt   |-> st.qt \/ ~img.present]

RECURSIVE Deliver(_, _, _, _)

\* the calls cbs of on_capture_complete, one after the other
Deliver(kind, cbs, annot, st) ==
    IF Len(cbs) = 0 THEN st
    ELSE Deliver(kind, Tail(cbs), annot,
                 OnCaptureComplete(kind, Head(cbs).img, annot, st))

\* the parent's state
ParentState ==
    [pv |-> parent_visible, aw |-> annotation_window, msgs |-> status_messages,
     open |-> open_annotations, qt |-> quit_timer]

\* the parent's state becomes st
SetParentState(st) ==
    /\ parent_visible' = st.pv
    /\ annotation_window' = st.aw
    /\ open_annotations' = st.open
    /\ status_messages' = st.msgs
    /\ quit_timer' = st.qt

parent_vars == <<parent_visible, annotation_window, open_annotations,
                 status_messages, quit_timer>>

sel_vars == <<start_point, end_point, is_capturing>>

\* main() of run.py up to app.exec(): the default UI shows the ScreenshotApp
\* window; direct capture shows nothing and arms
\* QTimer.singleShot(300, capture.start_capture)
CapInit ==
    /\ is_macos \in BOOLEAN
    /\ parent_kind \in ParentKinds
    /\ origin = [x |-> 0, y |-> 0]
    /\ background_image = NoneImg
    /\ overlay_visible = FALSE
    /\ start_point = NullPoint
    /\ end_point = NullPoint
    /\ is_capturing = FALSE
    /\ parent_visible = (parent_kind = "ScreenshotApp")
    /\ annotation_window = "None"
    /\ open_annotations = 0
    /\ capture_timer = (parent_kind = "DirectCaptureHandler")
    /\ bg_attempts = <<>>
    /\ attempts = <<>>
    /\ callbacks = <<>>
    /\ status_messages = 0
    /\ quit_timer = FALSE
    /\ app_running = TRUE
    /\ ov_start_calls = 0
    /\ uncaught = FALSE
    /\ session_files = {}

\* the number of annotation windows the model lets be open at a time
MaxWindows == 2

\* ScreenshotApp.start_capture: button or shortcut of the shown main window
AppStartCapture ==
    /\ parent_kind = "ScreenshotApp"
    /\ app_running
    /\ parent_visible
    /\ ~capture_timer
    /\ open_annotations < MaxWindows
    /\ parent_visible' = FALSE
    /\ capture_timer' = TRUE
    /\ ov_start_calls' = 0
    /\ UNCHANGED <<is_macos, parent_kind, origin, background_image,
                   overlay_visible, sel_vars, annotation_window,
                   open_annotations, bg_attempts,
                   attempts, callbacks, status_messages, quit_timer,
                   app_running, uncaught, session_files>>

\* Outcomes of take_full_screenshot: an image, None with no file left
\* (non-zero exit, missing or empty file), or None because Image.open /
\* img.load raised, which returns before the temporary file is removed.
FullNativeOutcomes == {"ok", "none", "load_error"}

\* Outcomes of take_pyqt_screenshot: an image (the combined one or that of
\* the primary screen, each with its debug copy), or None.
PyQtOutcomes == {"ok", "none"}

\* a chain that on macOS goes on to the Qt grab although the native
\* screenshot returned an image
BackgroundChain_NoStop(macos, native, qt, pyag, size) ==
    LET qimg == Img("qt", 0, 0, size.w, size.h)
        pimg == IF pyag = "ok" THEN Img("pyautogui", 0, 0, size.w, size.h)
                ELSE NoneImg
        nf   == IF native = "ok" THEN {"screenshot_debug"}
                ELSE IF native = "load_error" THEN {"screenshot_temp"} ELSE {}
        qf   == IF qt = "ok" THEN {"combined_screenshot"} ELSE {}
    IN  IF macos
        THEN IF qt # "none"
             THEN [tried |-> <<"native", "qt">>, img |-> qimg,
                   files |-> nf \cup qf]
             ELSE IF native = "ok"
             THEN [tried |-> <<"native", "qt">>,
                   img |-> Img("native", 0, 0, size.w, size.h), files |-> nf]
             ELSE [tried |-> <<"native", "qt", "pyautogui">>, img |-> pimg,
                   files |-> nf]
        ELSE IF qt # "none"
             THEN [tried |-> <<"qt">>, img |-> qimg, files |-> qf]
             ELSE [tried |-> <<"qt", "pyautogui">>, img |-> pimg, files |-> {}]

\* The fallback chain of start_capture for the full-desktop bitmap:
\*   native : outcome of take_full_screenshot
\*   qt     : outcome of take_pyqt_screenshot
\*   pyag   : pyautogui.screenshot() gives an image ("ok") or raises ("raise")
\* with the files in /tmp the methods leave behind.
BackgroundChain(macos, native, qt, pyag, size) ==
    LET qimg == Img("qt", 0, 0, size.w, size.h)
        pimg == IF pyag = "ok" THEN Img("pyautogui", 0, 0, size.w, size.h)
                ELSE NoneImg
        nf   == IF native = "ok" THEN {"screenshot_debug"}
                ELSE IF native = "load_error" THEN {"screenshot_temp"} ELSE {}
        qf   == IF qt = "ok" THEN {"combined_screenshot"} ELSE {}
    IN  IF macos
        THEN IF native = "ok"
             THEN [tried |-> <<"native">>,
                   img |-> Img("native", 0, 0, size.w, size.h), files |-> nf]
             ELSE IF qt # "none"
             THEN [tried |-> <<"native", "qt">>, img |-> qimg,
                   files |-> nf \cup qf]
             ELSE [tried |-> <<"native", "qt", "pyautogui">>, img |-> pimg,
                   files |-> nf]
        ELSE IF qt # "none"
             THEN [tried |-> <<"qt">>, img |-> qimg, files |-> qf]
             ELSE [tried |-> <<"qt", "pyautogui">>, img |-> pimg, files |-> {}]

\* start_capture whose background chain lets the exception of
\* pyautogui.screenshot() leave the method
OverlayStartCapture_NoCatch(native, qt, pyag, size, org) ==
    LET r == BackgroundChain(is_macos, native, qt, pyag, size)
    IN  /\ bg_attempts' = r.tried
        /\ background_image' = r.img
        /\ attempts' = <<>>
        /\ ov_start_calls' = ov_start_calls + 1
        /\ session_files' = r.files
        /\ IF ~r.img.present
           THEN /\ uncaught' = (pyag = "raise")
                /\ IF pyag = "raise"
                   THEN /\ callbacks' = <<>>
                        /\ SetParentState([ParentState EXCEPT !.msgs = 0])
                   ELSE /\ callbacks' = <<CB(NoneImg, "no_background")>>
                        /\ SetParentState(
                             OnCaptureComplete(parent_kind, NoneImg, "ok",
                               [ParentState EXCEPT !.pv = TRUE, !.msgs = 0]))
                /\ UNCHANGED <<origin, overlay_visible, sel_vars>>
           ELSE /\ origin' = org
                /\ start_point' = NullPoint
                /\ end_point' = NullPoint
                /\ is_capturing' = FALSE
                /\ overlay_visible' = TRUE
                /\ callbacks' = <<>>
                /\ uncaught' = FALSE
                /\ SetParentState([ParentState EXCEPT !.msgs = 0])

\* start_capture that shows the overlay without resetting the selection
OverlayStartCapture_NoReset(native, qt, pyag, size, org) ==
    LET r == BackgroundChain(is_macos, native, qt, pyag, size)
    IN  /\ bg_attempts' = r.tried
        /\ background_image' = r.img
        /\ attempts' = <<>>
        /\ ov_start_calls' = ov_start_calls + 1
        /\ session_files' = r.files
        /\ uncaught' = FALSE
        /\ IF ~r.img.present
           THEN /\ callbacks' = <<CB(NoneImg, "no_background")>>
                /\ SetParentState(
                     OnCaptureComplete(parent_kind, NoneImg, "ok",
                       [ParentState EXCEPT !.pv = TRUE, !.msgs = 0]))
                /\ UNCHANGED <<origin, overlay_visible, sel_vars>>
           ELSE /\ origin' = org
                /\ UNCHANGED sel_vars
                /\ overlay_visible' = TRUE
                /\ callbacks' = <<>>
                /\ SetParentState([ParentState EXCEPT !.msgs = 0])

\* start_capture that shows the overlay whether or not a background bitmap
\* was acquired
OverlayStartCapture_ShowsAnyway(native, qt, pyag, size, org) ==
    LET r == BackgroundChain(is_macos, native, qt, pyag, size)
    IN  /\ bg_attempts' = r.tried
        /\ background_image' = r.img
        /\ attempts' = <<>>
        /\ ov_start_calls' = ov_start_calls + 1
        /\ session_files' = r.files
        /\ uncaught' = FALSE
        /\ origin' = org
        /\ start_point' = NullPoint
        /\ end_point' = NullPoint
        /\ is_capturing' = FALSE
        /\ overlay_visible' = TRUE
        /\ callbacks' = <<>>
        /\ SetParentState([ParentState EXCEPT !.msgs = 0])

\* ScreenCaptureOverlay.start_capture: the background chain; when it gives
\* no image, parent_app.show() and parent_app.on_capture_complete(None);
\* otherwise the selection is reset and the overlay shown over the desktop
\* with top-left corner org.  A new session starts: the session history
\* (attempts, callbacks, status messages) is reset.
OverlayStartCapture(native, qt, pyag, size, org) ==
    LET r == BackgroundChain(is_macos, native, qt, pyag, size)
    IN  /\ bg_attempts' = r.tried
        /\ background_image' = r.img
        /\ attempts' = <<>>
        /\ ov_start_calls' = ov_start_calls + 1
        /\ session_files' = r.files
        /\ uncaught' = FALSE
        /\ IF ~r.img.present
           THEN /\ callbacks' = <<CB(NoneImg, "no_background")>>
                /\ SetParentState(
                     OnCaptureComplete(parent_kind, NoneImg, "ok",
                       [ParentState EXCEPT !.pv = TRUE, !.msgs = 0]))
                /\ UNCHANGED <<origin, overlay_visible, sel_vars>>
           ELSE /\ origin' = org
                /\ start_point' = NullPoint
                /\ end_point' = NullPoint
                /\ is_capturing' = FALSE
                /\ overlay_visible' = TRUE
                /\ callbacks' = <<>>
                /\ SetParentState([ParentState EXCEPT !.msgs = 0])

\* ScreenshotApp._delayed_capture with ScreenCaptureOverlay.start_capture;
\* permOk is the outcome of the macOS permission check
DelayedCapture(permOk, native, qt, pyag, size, org) ==
    /\ parent_kind = "ScreenshotApp"
    /\ app_running
    /\ capture_timer
    /\ capture_timer' = FALSE
    /\ IF is_macos /\ ~permOk
       THEN /\ parent_visible' = TRUE
            /\ UNCHANGED <<origin, background_image, overlay_visible, sel_vars,
                           annotation_window, open_annotations,
                           status_messages, quit_timer,
                           bg_attempts, attempts, callbacks, ov_start_calls,
                           uncaught, session_files>>
       ELSE OverlayStartCapture(native, qt, pyag, size, org)
    /\ UNCHANGED <<is_macos, parent_kind, app_running>>

\* direct capture: QTimer.singleShot(300, capture.start_capture) fires
DirectStartCapture(native, qt, pyag, size, org) ==
    /\ parent_kind = "DirectCaptureHandler"
    /\ app_running
    /\ capture_timer
    /\ capture_timer' = FALSE
    /\ OverlayStartCapture(native, qt, pyag, size, org)
    /\ UNCHANGED <<is_macos, parent_kind, app_running>>

\* ScreenCaptureOverlay.mousePressEvent
OvMousePress(button, pos) ==
    /\ app_running
    /\ overlay_visible
    /\ IF button = "left"
       THEN /\ start_point' = pos
            /\ end_point' = pos
            /\ is_capturing' = TRUE
       ELSE UNCHANGED sel_vars
    /\ UNCHANGED <<is_macos, parent_kind, origin, background_image,
                   overlay_visible, parent_vars, capture_timer, bg_attempts,
                   attempts, callbacks, app_running, ov_start_calls, uncaught,
                   session_files>>

\* ScreenCaptureOverlay.mouseMoveEvent
OvMouseMove(pos) ==
    /\ app_running
    /\ overlay_visible
    /\ IF is_capturing
       THEN end_point' = pos
       ELSE UNCHANGED end_point
    /\ UNCHANGED <<is_macos, parent_kind, origin, background_image,
                   overlay_visible, start_point, is_capturing, parent_vars,
                   capture_timer, bg_attempts, attempts, callbacks, app_running,
                   ov_start_calls, uncaught, session_files>>

\* ScreenCaptureOverlay.mouseReleaseEvent: take_screenshot, every
\* on_capture_complete of the parent it makes, and the final hide()
OvMouseRelease(button, pos, esc, native, crop, d, annot) ==
    /\ app_running
    /\ overlay_visible
    /\ IF button = "left" /\ is_capturing
       THEN LET r == TakeScreenshot(SelectionRect(start_point, pos), origin,
                                    background_image, is_macos, esc, native,
                                    crop, d)
            IN  /\ end_point' = pos
                /\ is_capturing' = FALSE
                /\ attempts' = attempts \o r.atts
                /\ callbacks' = callbacks \o r.cbs
                /\ SetParentState(Deliver(parent_kind, r.cbs, annot, ParentState))
                /\ session_files' = session_files \cup r.files
                /\ uncaught' = r.raised
                /\ overlay_visible' = FALSE
       ELSE UNCHANGED <<end_point, is_capturing, attempts, callbacks,
                        parent_vars, session_files, uncaught, overlay_visible>>
    /\ UNCHANGED <<is_macos, parent_kind, origin, background_image, start_point,
                   capture_timer, bg_attempts, app_running, ov_start_calls>>

\* keyPressEvent that reports the cancellation and leaves the overlay shown
OvKeyPress_NoHide(key) ==
    /\ app_running
    /\ overlay_visible
    /\ IF key = "Escape"
       THEN /\ callbacks' = Append(callbacks, CB(NoneImg, "escape"))
            /\ SetParentState(OnCaptureComplete(parent_kind, NoneImg, "ok",
                                                ParentState))
       ELSE UNCHANGED <<callbacks, parent_vars>>
    /\ UNCHANGED <<is_macos, parent_kind, origin, background_image, sel_vars,
                   capture_timer, bg_attempts, attempts, overlay_visible,
                   app_running, ov_start_calls, uncaught, session_files>>

\* ScreenCaptureOverlay.keyPressEvent with the parent's on_capture_complete(None)
OvKeyPress(key) ==
    /\ app_running
    /\ overlay_visible
    /\ IF key = "Escape"
       THEN /\ overlay_visible' = FALSE
            /\ callbacks' = Append(callbacks, CB(NoneImg, "escape"))
            /\ SetParentState(OnCaptureComplete(parent_kind, NoneImg, "ok",
                                                ParentState))
       ELSE UNCHANGED <<overlay_visible, callbacks, parent_vars>>
    /\ UNCHANGED <<is_macos, parent_kind, origin, background_image, sel_vars,
                   capture_timer, bg_attempts, attempts, app_running,
                   ov_start_calls, uncaught, session_files>>

\* direct capture: QTimer.singleShot(500, app.quit) fires and app.exec()
\* returns; every window of the process is gone
AppQuit ==
    /\ app_running
    /\ quit_timer
    /\ app_running' = FALSE
    /\ quit_timer' = FALSE
    /\ capture_timer' = FALSE
    /\ overlay_visible' = FALSE
    /\ parent_visible' = FALSE
    /\ annotation_window' = "None"
    /\ open_annotations' = 0
    /\ UNCHANGED <<is_macos, parent_kind, origin, background_image, sel_vars,
                   bg_attempts, attempts, callbacks, status_messages,
                   ov_start_calls, uncaught, session_files>>

\* AnnotationWindow.closeEvent: the user closes one of the open annotation
\* windows.  A window of the default UI sets its parent's annotation_window
\* to None; in direct capture the window has no parent, and when it was the
\* last window shown app.exec() returns.
CloseAnnotation ==
    /\ app_running
    /\ open_annotations > 0
    /\ open_annotations' = open_annotations - 1
    /\ annotation_window' = IF parent_kind = "ScreenshotApp" THEN "None"
                            ELSE annotation_window
    /\ IF parent_kind = "DirectCaptureHandler" /\ ~parent_visible
          /\ ~overlay_visible /\ open_annotations = 1
       THEN /\ app_running' = FALSE
            /\ quit_timer' = FALSE
       ELSE UNCHANGED <<app_running, quit_timer>>
    /\ UNCHANGED <<is_macos, parent_kind, origin, background_image,
                   overlay_visible, sel_vars, parent_visible, status_messages,
                   capture_timer, bg_attempts, attempts, callbacks,
                   ov_start_calls, uncaught, session_files>>

\* ScreenshotApp.closeEvent: the user closes the shown main window.  The
\* window the attribute refers to is closed, which sets the attribute to
\* None; the main window was the last window without a parent, so
\* app.exec() returns and every window of the process is gone.
MainWindowClose ==
    /\ parent_kind = "ScreenshotApp"
    /\ app_running
    /\ parent_visible
    /\ ~capture_timer
    /\ parent_visible' = FALSE
    /\ annotation_window' = "None"
    /\ open_annotations' = 0
    /\ app_running' = FALSE
    /\ UNCHANGED <<is_macos, parent_kind, origin, background_image,
                   overlay_visible, sel_vars, status_messages, quit_timer,
                   capture_timer, bg_attempts, attempts, callbacks,
                   ov_start_calls, uncaught, session_files>>

\* AnnotationWindow.save_image: Save As; chosen is FALSE when the file
\* dialog is cancelled
SaveImage(chosen) ==
    /\ app_running
    /\ open_annotations > 0
    /\ session_files' = IF chosen THEN session_files \cup {"saved_image"} ELSE session_files
    /\ UNCHANGED <<is_macos, parent_kind, origin, background_image,
                   overlay_visible, sel_vars, parent_vars, capture_timer,
                   bg_attempts, attempts, callbacks, app_running,
                   ov_start_calls, uncaught>>

\* The environment outcomes that matter to a release at pos: the steps a
\* release does not reach get one fixed outcome.
ReleaseEnvs(button, pos) ==
    LET rect == SelectionRect(start_point, pos)
        acc  == button = "left" /\ is_capturing /\ ~TooSmall(rect)
        nat  == acc /\ is_macos /\ NativeGuard(GlobalRect(rect, origin))
    IN  [esc    : IF acc THEN BOOLEAN ELSE {FALSE},
         native : IF nat THEN NativeOutcomes ELSE {"fail"},
         crop   : IF acc /\ background_image.present
                  THEN {"ok", "raise"} ELSE {"ok"},
         d      : IF acc /\ ~background_image.present
                  THEN DirectEnvs
                  ELSE {[native |-> "fail", pyautogui |-> "raise",
                         crop |-> "raise", qt |-> "fail"]},
         annot  : IF acc THEN {"ok", "raise"} ELSE {"ok"}]

\* Qt delivers mouse and key events to the overlay only while it is shown;
\* hiding it drops the pending button state, so a release that follows a hide
\* is not delivered.
\* The default UI over the full set of positions, screen layouts and bitmap
\* sizes; every temporary file loads and every annotation window opens.
CapNext ==
    \/ AppStartCapture
    \/ \E permOk \in BOOLEAN, native \in {"ok", "none"}, qt \in PyQtOutcomes,
          pyag \in {"ok", "raise"}, size \in BgSizes, org \in Origins :
          DelayedCapture(permOk, native, qt, pyag, size, org)
    \/ \E b \in {"left", "right"}, p \in Positions : OvMousePress(b, p)
    \/ \E p \in Positions : OvMouseMove(p)
    \/ \E b \in {"left", "right"}, p \in Positions :
          \E e \in {f \in ReleaseEnvs(b, p) :
                      f.native # "load_error" /\ f.annot = "ok"} :
             OvMouseRelease(b, p, e.esc, e.native, e.crop, e.d, e.annot)
    \/ \E k \in {"Escape", "Other"} : OvKeyPress(k)

\* Positions, screen layouts and bitmap size of the specifications that
\* follow the windows and the files: a selection 10 wide, one 11 wide, a
\* single screen and a screen left of the primary one.
WinPositions == {[x |-> 0, y |-> 0], [x |-> 9, y |-> 12], [x |-> 10, y |-> 12]}

WinOrigins == {[x |-> 0, y |-> 0], [x |-> -20, y |-> 0]}

WinBgSizes == {[w |-> 30, h |-> 30]}

\* the overlay's events and the annotation window, with every outcome of
\* the environment
WinOverlayNext ==
    \/ \E b \in {"left", "right"}, p \in WinPositions : OvMousePress(b, p)
    \/ \E p \in WinPositions : OvMouseMove(p)
    \/ \E b \in {"left", "right"}, p \in WinPositions :
          \E e \in ReleaseEnvs(b, p) :
             OvMouseRelease(b, p, e.esc, e.native, e.crop, e.d, e.annot)
    \/ \E k \in {"Escape", "Other"} : OvKeyPress(k)
    \/ CloseAnnotation
    \/ \E chosen \in BOOLEAN : SaveImage(chosen)

\* the default UI with every outcome of the environment
WindowsNext ==
    \/ AppStartCapture
    \/ \E permOk \in BOOLEAN, native \in FullNativeOutcomes, qt \in PyQtOutcomes,
          pyag \in {"ok", "raise"}, size \in WinBgSizes, org \in WinOrigins :
          DelayedCapture(permOk, native, qt, pyag, size, org)
    \/ WinOverlayNext
    \/ MainWindowClose

\* direct capture: DirectCaptureHandler with its overlay
DirectNext ==
    \/ \E native \in FullNativeOutcomes, qt \in PyQtOutcomes,
          pyag \in {"ok", "raise"}, size \in WinBgSizes, org \in WinOrigins :
          DirectStartCapture(native, qt, pyag, size, org)
    \/ WinOverlayNext
    \/ AppQuit

(***************************************************************************)
(*                  ScreenshotUtilService: preferences                     *)
(***************************************************************************)

\* Python values: t is the type, s the text of a scalar or the key of a
\* dictionary entry, kids the items of a list or the entries of a dict.
PyStr(str) == [t |-> "str", s |-> str, kids |-> <<>>]

PyBool(b) == [t |-> "bool", s |-> IF b THEN "True" ELSE "False", kids |-> <<>>]

PyNone == [t |-> "none", s |-> "", kids |-> <<>>]

PyInt(digits) == [t |-> "int", s |-> digits, kids |-> <<>>]

PyList(items) == [t |-> "list", s |-> "", kids |-> items]

PyPair(key, val) == [t |-> "pair", s |-> key, kids |-> <<val>>]

PyDict(pairs) == [t |-> "dict", s |-> "", kids |-> pairs]

\* key in d
DictHas(d, key) == \E i \in 1 .. Len(d.kids) : d.kids[i].s = key

\* d.get(key, default)
DictGet(d, key, default) ==
    IF DictHas(d, key)
    THEN (d.kids[CHOOSE i \in 1 .. Len(d.kids) : d.kids[i].s = key]).kids[1]
    ELSE default

\* d[key] = val: an existing key keeps its place, a new key goes last
DictSet(d, key, val) ==
    IF DictHas(d, key)
    THEN PyDict([i \in 1 .. Len(d.kids) |->
                    IF d.kids[i].s = key THEN PyPair(key, val) ELSE d.kids[i]])
    ELSE PyDict(Append(d.kids, PyPair(key, val)))

\* bool(v)
Truthy(v) ==
    CASE v.t = "bool" -> v.s = "True"
      [] v.t = "none" -> FALSE
      [] v.t = "str"  -> v.s # ""
      [] v.t = "int"  -> v.s # "0"
      [] OTHER        -> Len(v.kids) > 0

\* JSON text as its sequence of tokens (white space carries no meaning)
Tok(kind, text) == [k |-> kind, v |-> text]

RECURSIVE DumpVal(_)
RECURSIVE DumpItems(_)

\* the items of an array or the members of an object, comma separated
DumpItems(items) ==
    IF Len(items) = 0 THEN <<>>
    ELSE LET e     == Head(items)
             first == IF e.t = "pair"
                      THEN <<Tok("str", e.s), Tok(":", "")>> \o DumpVal(e.kids[1])
                      ELSE DumpVal(e)
         IN  IF Len(items) = 1 THEN first
             ELSE first \o <<Tok(",", "")>> \o DumpItems(Tail(items))

\* json.dump of a Python value
DumpVal(v) ==
    CASE v.t = "str"  -> <<Tok("str", v.s)>>
      [] v.t = "bool" -> <<Tok("lit", IF v.s = "True" THEN "true" ELSE "false")>>
      [] v.t = "none" -> <<Tok("lit", "null")>>
      [] v.t = "int"  -> <<Tok("num", v.s)>>
      [] v.t = "list" -> <<Tok("[", "")>> \o DumpItems(v.kids) \o <<Tok("]", "")>>
      [] v.t = "dict" -> <<Tok("{", "")>> \o DumpItems(v.kids) \o <<Tok("}", "")>>

\* result of a failed parse
ParseFail == [ok |-> FALSE, val |-> PyNone, next |-> 0]

ParseOk(val, next) == [ok |-> TRUE, val |-> val, next |-> next]

RECURSIVE ParseValue(_, _)
RECURSIVE ParseItems(_, _, _, _)

\* the items after "[" or the members after "{", up to the closing token
ParseItems(toks, i, acc, close) ==
    IF i > Len(toks) THEN ParseFail
    ELSE IF toks[i].k = close /\ Len(acc.kids) = 0 THEN ParseOk(acc, i + 1)
    ELSE
    LET isObj == close = "}"
        keyOk == i + 1 <= Len(toks) /\ toks[i].k = "str" /\ toks[i + 1].k = ":"
        r     == IF isObj
                 THEN IF keyOk THEN ParseValue(toks, i + 2) ELSE ParseFail
                 ELSE ParseValue(toks, i)
        acc1  == IF isObj THEN DictSet(acc, toks[i].v, r.val)
                 ELSE PyList(Append(acc.kids, r.val))
    IN  IF ~r.ok \/ r.next > Len(toks) THEN ParseFail
        ELSE IF toks[r.next].k = "," THEN ParseItems(toks, r.next + 1, acc1, close)
        ELSE IF toks[r.next].k = close THEN ParseOk(acc1, r.next + 1)
        ELSE ParseFail

\* one JSON value starting at token i
ParseValue(toks, i) ==
    IF i > Len(toks) THEN ParseFail
    ELSE LET tk == toks[i]
         IN  CASE tk.k = "str" -> ParseOk(PyStr(tk.v), i + 1)
               [] tk.k = "num" -> ParseOk(PyInt(tk.v), i + 1)
               [] tk.k = "lit" ->
                    IF tk.v = "true" THEN ParseOk(PyBool(TRUE), i + 1)
                    ELSE IF tk.v = "false" THEN ParseOk(PyBool(FALSE), i + 1)
                    ELSE IF tk.v = "null" THEN ParseOk(PyNone, i + 1)
                    ELSE ParseFail
               [] tk.k = "[" -> ParseItems(toks, i + 1, PyList(<<>>), "]")
               [] tk.k = "{" -> ParseItems(toks, i + 1, PyDict(<<>>), "}")
               [] OTHER -> ParseFail

\* json.load: ok is FALSE where json.load raises
JsonLoad(toks) ==
    LET r == ParseValue(toks, 1)
    IN  IF r.ok /\ r.next = Len(toks) + 1
        THEN [ok |-> TRUE, val |-> r.val]
        ELSE [ok |-> FALSE, val |-> PyNone]

\* DEFAULT_PREFERENCES["hotkey"]
DefaultHotkey ==
    PyDict(<<PyPair("key", PyStr("4")),
             PyPair("modifiers", PyList(<<PyStr("command"), PyStr("shift")>>))>>)

\* DEFAULT_PREFERENCES
DEFAULT_PREFERENCES ==
    PyDict(<<PyPair("hotkey", DefaultHotkey),
             PyPair("save_location", PyStr("~/Screenshots")),
             PyPair("auto_launch", PyBool(TRUE))>>)

\* a hotkey a user has configured
OtherHotkey ==
    PyDict(<<PyPair("key", PyStr("5")),
             PyPair("modifiers", PyList(<<PyStr("control")>>))>>)

\* the preferences file: absent, or a text
NoFile == [exists |-> FALSE, toks |-> <<>>]

FileOf(toks) == [exists |-> TRUE, toks |-> toks]

\* well-formed preferences records a file can hold
WellFormedRecords ==
    { PyDict(<<PyPair("hotkey", hk), PyPair("save_location", PyStr(loc)),
               PyPair("auto_launch", PyBool(al))>>) :
        hk \in {DefaultHotkey, OtherHotkey},
        loc \in {"~/Screenshots", "~/Pictures"},
        al \in BOOLEAN }

\* texts that json.load rejects
UnparseableTexts ==
    { <<>>, <<Tok("bad", "")>>, <<Tok("{", ""), Tok("str", "hotkey"), Tok(":", "")>>,
      <<Tok("{", ""), Tok("}", ""), Tok("}", "")>> }

\* valid JSON that is not an object
NonObjectTexts ==
    { DumpVal(PyList(<<>>)), DumpVal(PyNone), DumpVal(PyStr("hotkey")),
      DumpVal(PyInt("7")), DumpVal(PyBool(TRUE)) }

\* objects whose hotkey entry is missing or is not an object
BadHotkeyTexts ==
    { DumpVal(PyDict(<<>>)),
      DumpVal(PyDict(<<PyPair("save_location", PyStr("~/Pictures")),
                       PyPair("auto_launch", PyBool(FALSE))>>)),
      DumpVal(PyDict(<<PyPair("hotkey", PyStr("cmd+4")),
                       PyPair("auto_launch", PyBool(FALSE))>>)),
      DumpVal(PyDict(<<PyPair("hotkey", PyList(<<PyStr("command")>>))>>)) }

\* every content the environment can give the preferences file
FileContents ==
    {NoFile}
    \cup { FileOf(DumpVal(rec)) : rec \in WellFormedRecords }
    \cup { FileOf(txt) : txt \in UnparseableTexts \cup NonObjectTexts \cup BadHotkeyTexts }

\* ScreenshotUtilService.load_preferences; readOk is FALSE when open or read
\* raises
LoadPreferences(file, readOk) ==
    IF file.exists
    THEN IF readOk /\ JsonLoad(file.toks).ok
         THEN JsonLoad(file.toks).val
         ELSE DEFAULT_PREFERENCES
    ELSE DEFAULT_PREFERENCES

\* Outcomes of the write in save_preferences: written, open() raised, or the
\* write raised after open() truncated the file.
SaveOutcomes == {"ok", "open_error", "write_error"}

\* save_preferences that writes the hotkey entry in place of the record
SavePreferences_HotkeyOnly(prefs, file, io) ==
    CASE io = "ok"          -> FileOf(DumpVal(DictGet(prefs, "hotkey", PyNone)))
      [] io = "open_error"  -> file
      [] io = "write_error" -> FileOf(<<>>)

\* save_preferences that returns before it writes
SavePreferences_NoWrite(prefs, file, io) == file

\* ScreenshotUtilService.save_preferences: the file it leaves
SavePreferences(prefs, file, io) ==
    CASE io = "ok"          -> FileOf(DumpVal(prefs))
      [] io = "open_error"  -> file
      [] io = "write_error" -> FileOf(<<>>)

\* the history variable saved after save_preferences(prefs) with outcome io
SavedAfter(prefs, io) ==
    IF io = "ok" THEN [valid |-> TRUE, rec |-> prefs]
    ELSE IF io = "open_error" THEN saved
    ELSE [valid |-> FALSE, rec |-> PyNone]

\* run_service before ScreenshotUtilService(): no service object yet
\* no HotkeyListener, or one that was stopped
NoListener == [running |-> FALSE, hotkey |-> PyNone]

\* HotkeyListener(callback, prefs).start(): the hotkey is read from the
\* preferences and the pynput listener thread is started
ListenerStart(prefs) ==
    [running |-> TRUE, hotkey |-> DictGet(prefs, "hotkey", DefaultHotkey)]

\* ScreenshotUtilService.take_screenshot run on the given thread: the steps
\* it makes there.  popen is the outcome of subprocess.Popen of
\* run.py --direct-capture.
ServiceTakeScreenshot(thread, popen) ==
    IF popen = "ok"
    THEN {[op |-> "launch_capture", thread |-> thread],
          [op |-> "notification", thread |-> thread]}
    ELSE {[op |-> "launch_capture", thread |-> thread],
          [op |-> "error_notification", thread |-> thread]}

SvcInit ==
    /\ svc_state = "stopped"
    /\ preferences = PyNone
    /\ prefs_file \in {NoFile, FileOf(DumpVal(DEFAULT_PREFERENCES))}
    /\ svc_event = "none"
    /\ svc_read_ok = TRUE
    /\ svc_save_ok = FALSE
    /\ saved = [valid |-> FALSE, rec |-> PyNone]
    /\ hotkey_listener = NoListener
    /\ service_calls = {}
    /\ old_listeners = 0
    /\ plist_installed = FALSE
    /\ auto_launch_title = "none"

\* auto_launch_status in setup_menu and toggle_auto_launch
AutoLaunchStatus(setting) == IF setting THEN "Enabled" ELSE "Disabled"

\* ScreenshotUtilService.__init__: load_preferences, the hotkey repair with
\* save_preferences, and HotkeyListener(self.take_screenshot,
\* self.preferences).start()
ServiceStart(readOk, io) ==
    /\ svc_state \in {"stopped", "crashed"}
    /\ service_calls' = {}
    /\ UNCHANGED old_listeners
    /\ svc_read_ok' = (readOk \/ ~prefs_file.exists)
    /\ LET loaded == LoadPreferences(prefs_file, readOk)
       IN  IF loaded.t # "dict"
           THEN \* the membership test, the isinstance test or the item
                \* assignment raises TypeError; run_service exits
                /\ svc_state' = "crashed"
                /\ preferences' = loaded
                /\ svc_event' = "startup_raised"
                /\ svc_save_ok' = FALSE
                /\ UNCHANGED <<prefs_file, saved, hotkey_listener>>
           ELSE IF ~DictHas(loaded, "hotkey")
                   \/ DictGet(loaded, "hotkey", PyNone).t # "dict"
           THEN LET fixed == DictSet(loaded, "hotkey", DefaultHotkey)
                IN  /\ svc_state' = "running"
                    /\ preferences' = fixed
                    /\ prefs_file' = SavePreferences(fixed, prefs_file, io)
                    /\ saved' = SavedAfter(fixed, io)
                    /\ svc_event' = "startup_repair"
                    /\ svc_save_ok' = (io = "ok")
                    /\ hotkey_listener' = ListenerStart(fixed)
           ELSE /\ svc_state' = "running"
                /\ preferences' = loaded
                /\ svc_event' = "startup"
                /\ svc_save_ok' = FALSE
                /\ hotkey_listener' = ListenerStart(loaded)
                /\ UNCHANGED <<prefs_file, saved>>
    \* setup_menu, and setup_launch_agent when auto_launch is set
    /\ IF svc_state' = "running"
       THEN LET setting == Truthy(DictGet(preferences', "auto_launch",
                                          PyBool(TRUE)))
            IN  /\ auto_launch_title' = AutoLaunchStatus(setting)
                /\ plist_installed' = (plist_installed \/ setting)
       ELSE /\ auto_launch_title' = "none"
            /\ UNCHANGED plist_installed

\* ScreenshotUtilService.toggle_auto_launch
ToggleAutoLaunch(io) ==
    /\ svc_state = "running"
    /\ LET new_setting == ~Truthy(DictGet(preferences, "auto_launch", PyBool(TRUE)))
           np == DictSet(preferences, "auto_launch", PyBool(new_setting))
       IN  /\ preferences' = np
           /\ prefs_file' = SavePreferences(np, prefs_file, io)
           /\ saved' = SavedAfter(np, io)
           \* the menu title, then setup_launch_agent or remove_launch_agent
           /\ auto_launch_title' = AutoLaunchStatus(new_setting)
           /\ plist_installed' = new_setting
    /\ svc_event' = "toggle_auto_launch"
    /\ svc_save_ok' = (io = "ok")
    /\ service_calls' = {}
    /\ UNCHANGED <<svc_state, svc_read_ok, hotkey_listener, old_listeners>>

\* ScreenshotUtilService.set_save_location; response is the answer to the alert
SetSaveLocation(response, io) ==
    /\ svc_state = "running"
    /\ IF response
       THEN LET np == DictSet(preferences, "save_location", PyStr("~/Screenshots"))
            IN  /\ preferences' = np
                /\ prefs_file' = SavePreferences(np, prefs_file, io)
                /\ saved' = SavedAfter(np, io)
                /\ svc_event' = "set_save_location"
                /\ svc_save_ok' = (io = "ok")
       ELSE /\ svc_event' = "keep_save_location"
            /\ svc_save_ok' = FALSE
            /\ UNCHANGED <<preferences, prefs_file, saved>>
    /\ service_calls' = {}
    /\ UNCHANGED <<svc_state, svc_read_ok, hotkey_listener, old_listeners>>
    /\ UNCHANGED <<plist_installed, auto_launch_title>>

\* open_hotkey_settings that on an accepted dialog puts the hotkey into a
\* fresh record of defaults
OpenHotkeySettings_ResetsOthers(result, io, join) ==
    /\ svc_state = "running"
    /\ service_calls' = {}
    /\ IF result = "accepted"
       THEN LET updated_prefs == JsonLoad(DumpVal(preferences))
            IN  IF updated_prefs.ok /\ updated_prefs.val.t = "dict"
                   /\ DictHas(updated_prefs.val, "hotkey")
                THEN LET np == DictSet(DEFAULT_PREFERENCES, "hotkey",
                                       DictGet(updated_prefs.val, "hotkey", PyNone))
                     IN  /\ preferences' = np
                         /\ prefs_file' = SavePreferences(np, prefs_file, io)
                         /\ saved' = SavedAfter(np, io)
                         /\ svc_event' = "hotkey_accepted"
                         /\ svc_save_ok' = (io = "ok")
                         /\ hotkey_listener' = ListenerStart(np)
                         /\ old_listeners' =
                               IF hotkey_listener.running /\ join = "timeout"
                               THEN old_listeners + 1 ELSE old_listeners
                ELSE /\ svc_event' = "hotkey_error"
                     /\ svc_save_ok' = FALSE
                     /\ UNCHANGED <<preferences, prefs_file, saved,
                                    hotkey_listener, old_listeners>>
       ELSE /\ svc_event' = IF result = "cancelled"
                            THEN "hotkey_cancelled" ELSE "hotkey_error"
            /\ svc_save_ok' = FALSE
            /\ UNCHANGED <<preferences, prefs_file, saved, hotkey_listener,
                           old_listeners>>
    /\ UNCHANGED <<svc_state, svc_read_ok, plist_installed, auto_launch_title>>

\* ScreenshotUtilService.open_hotkey_settings.  The dialog script gets a
\* temporary file holding json.dump(self.preferences); result is
\*   "accepted"  : the script returned 0, the temporary file is read back,
\*   "cancelled" : the script returned non-zero,
\*   "error"     : writing the temporary file or running the script raised.
\* preferences_dialog.py defines the dialog class and has no main section, so
\* the script leaves the temporary file as written.  An accepted dialog
\* stops the hotkey listener and starts a new one on the preferences.
\* HotkeyListener.stop asks the pynput thread to stop and waits for it with
\* join(0.5); join is
\*   "joined"  : the thread ended within the 0.5 s,
\*   "timeout" : the thread was inside on_key_press and has not ended; stop
\*               returns all the same and the thread is left behind.
OpenHotkeySettings(result, io, join) ==
    /\ svc_state = "running"
    /\ service_calls' = {}
    /\ IF result = "accepted"
       THEN LET updated_prefs == JsonLoad(DumpVal(preferences))
            IN  IF updated_prefs.ok /\ updated_prefs.val.t = "dict"
                   /\ DictHas(updated_prefs.val, "hotkey")
                THEN LET np == DictSet(preferences, "hotkey",
                                       DictGet(updated_prefs.val, "hotkey", PyNone))
                     IN  /\ preferences' = np
                         /\ prefs_file' = SavePreferences(np, prefs_file, io)
                         /\ saved' = SavedAfter(np, io)
                         /\ svc_event' = "hotkey_accepted"
                         /\ svc_save_ok' = (io = "ok")
                         /\ hotkey_listener' = ListenerStart(np)
                         /\ old_listeners' =
                               IF hotkey_listener.running /\ join = "timeout"
                               THEN old_listeners + 1 ELSE old_listeners
                ELSE /\ svc_event' = "hotkey_error"
                     /\ svc_save_ok' = FALSE
                     /\ UNCHANGED <<preferences, prefs_file, saved,
                                    hotkey_listener, old_listeners>>
       ELSE /\ svc_event' = IF result = "cancelled"
                            THEN "hotkey_cancelled" ELSE "hotkey_error"
            /\ svc_save_ok' = FALSE
            /\ UNCHANGED <<preferences, prefs_file, saved, hotkey_listener,
                           old_listeners>>
    /\ UNCHANGED <<svc_state, svc_read_ok, plist_installed, auto_launch_title>>

\* ScreenshotUtilService.quit_app, with hotkey_listener.stop(); the process
\* ends and takes every thread with it
QuitApp ==
    /\ svc_state = "running"
    /\ svc_state' = "stopped"
    /\ preferences' = PyNone
    /\ svc_event' = "quit"
    /\ svc_save_ok' = FALSE
    /\ hotkey_listener' = NoListener
    /\ service_calls' = {}
    /\ old_listeners' = 0
    /\ auto_launch_title' = "none"
    /\ UNCHANGED <<prefs_file, saved, svc_read_ok, plist_installed>>

\* The user or another program replaces the preferences file while the
\* service is not running.
EditFile(content) ==
    /\ svc_state \in {"stopped", "crashed"}
    /\ content # prefs_file
    /\ prefs_file' = content
    /\ saved' = [valid |-> FALSE, rec |-> PyNone]
    /\ svc_event' = "file_edited"
    /\ svc_save_ok' = FALSE
    /\ UNCHANGED <<svc_state, preferences, svc_read_ok, hk_vars>>

\* HotkeyListener.on_key_press, run by pynput on the listener thread:
\* self.hotkey.press(key) calls on_hotkey_activated when key completes the
\* combination (match), and on_hotkey_activated calls self.callback(), the
\* service's take_screenshot, before it returns.
OnKeyPress(match, popen) ==
    /\ svc_state = "running"
    /\ hotkey_listener.running
    /\ service_calls' = IF match THEN ServiceTakeScreenshot("listener", popen)
                        ELSE {}
    /\ svc_event' = IF match THEN "hotkey_activated" ELSE "key_press"
    /\ svc_save_ok' = FALSE
    /\ UNCHANGED <<svc_state, preferences, prefs_file, svc_read_ok, saved,
                   hotkey_listener, old_listeners, plist_installed,
                   auto_launch_title>>

\* the "Take Screenshot" menu item: rumps calls take_screenshot(sender) from
\* the main loop
MenuTakeScreenshot(popen) ==
    /\ svc_state = "running"
    /\ service_calls' = ServiceTakeScreenshot("main", popen)
    /\ svc_event' = "menu_take_screenshot"
    /\ svc_save_ok' = FALSE
    /\ UNCHANGED <<svc_state, preferences, prefs_file, svc_read_ok, saved,
                   hotkey_listener, old_listeners, plist_installed,
                   auto_launch_title>>

\* on_key_press finishing on a listener thread that stop() left behind.
\* stop() cleared self.listener and self.running of the old HotkeyListener
\* and left self.hotkey, so `if not self.hotkey: return` lets the key
\* through: hotkey.press(key) calls on_hotkey_activated and with it the
\* service's take_screenshot when key completes the combination (match).
\* The thread ends when the handler returns.
OldListenerKeyPress(match, popen) ==
    /\ svc_state = "running"
    /\ old_listeners > 0
    /\ old_listeners' = old_listeners - 1
    /\ service_calls' = IF match THEN ServiceTakeScreenshot("listener", popen)
                        ELSE {}
    /\ svc_event' = "old_listener_key_press"
    /\ svc_save_ok' = FALSE
    /\ UNCHANGED <<svc_state, preferences, prefs_file, svc_read_ok, saved,
                   hotkey_listener, plist_installed, auto_launch_title>>

\* the number of listener threads the model lets be left behind at a time
MaxOldListeners == 1

\* outcomes of join(0.5) in HotkeyListener.stop
JoinOutcomes ==
    IF hotkey_listener.running /\ old_listeners < MaxOldListeners
    THEN {"joined", "timeout"} ELSE {"joined"}

SvcNext ==
    \/ \E readOk \in BOOLEAN, io \in SaveOutcomes : ServiceStart(readOk, io)
    \/ \E io \in SaveOutcomes : ToggleAutoLaunch(io)
    \/ \E response \in BOOLEAN, io \in SaveOutcomes : SetSaveLocation(response, io)
    \/ \E result \in {"accepted", "cancelled", "error"}, io \in SaveOutcomes,
          join \in JoinOutcomes :
          OpenHotkeySettings(result, io, join)
    \/ QuitApp
    \/ \E content \in FileContents : EditFile(content)
    \/ \E match \in BOOLEAN, popen \in {"ok", "raise"} : OnKeyPress(match, popen)
    \/ \E popen \in {"ok", "raise"} : MenuTakeScreenshot(popen)
    \/ \E match \in BOOLEAN, popen \in {"ok", "raise"} :
          OldListenerKeyPress(match, popen)

(***************************************************************************)
(*                 Processes: run.py and src/main.py, main()               *)
(***************************************************************************)

\* Number of processes that can be alive at once.
NumProcs == 2

Procs == 1 .. NumProcs

\* Inodes the lock file can have had: every open descriptor can keep one
\* alive, and the path names one more.
Inodes == 1 .. (NumProcs + 1)

\* the two entry points
Entries == {"run.py", "main.py"}

\* the if / elif / else of run.py taken with --direct-capture tested first
RunMode_DirectFirst(entry, service, direct) ==
    IF entry = "main.py" /\ direct THEN "usage_error"
    ELSE IF direct /\ entry = "run.py" THEN "direct"
    ELSE IF service THEN "service"
    ELSE "ui"

\* The run mode main() selects.  src/main.py declares no --direct-capture
\* option, so argparse ends the process with a usage error there.
RunMode(entry, service, direct) ==
    IF entry = "main.py" /\ direct THEN "usage_error"
    ELSE IF service THEN "service"
    ELSE IF direct THEN "direct"
    ELSE "ui"

\* an inode number no descriptor and no path refers to
FreshInode ==
    CHOOSE i \in Inodes : i # lock_path /\ \A p \in Procs : proc_fd[p] # i

\* no process has been started
RunInit ==
    /\ proc_pc = [p \in Procs |-> "none"]
    /\ proc_mode = [p \in Procs |-> "none"]
    /\ proc_fd = [p \in Procs |-> 0]
    /\ proc_status = [p \in Procs |-> -1]
    /\ proc_event = <<"none">>
    /\ lock_path = 0
    /\ flock_holder = [i \in Inodes |-> 0]

\* the process ends: the kernel closes its descriptor, which drops its lock
ProcessGone(p, status) ==
    /\ proc_pc' = [proc_pc EXCEPT ![p] = "none"]
    /\ proc_status' = [proc_status EXCEPT ![p] = status]
    /\ proc_fd' = [proc_fd EXCEPT ![p] = 0]
    /\ flock_holder' = [i \in Inodes |->
                          IF flock_holder[i] = p THEN 0 ELSE flock_holder[i]]

\* main() up to the choice of the run mode
Launch(p, entry, service, direct) ==
    /\ proc_pc[p] = "none"
    /\ LET m == RunMode(entry, service, direct)
       IN  /\ proc_mode' = [proc_mode EXCEPT ![p] = m]
           /\ proc_pc' = [proc_pc EXCEPT ![p] =
                            CASE m = "service" -> "svc_open"
                              [] m = "direct" -> "direct"
                              [] m = "ui" -> "ui"
                              [] OTHER -> "none"]
           /\ proc_status' = [proc_status EXCEPT ![p] =
                                IF m = "usage_error" THEN 2 ELSE -1]
    /\ proc_event' = <<"launch", p, entry, service, direct>>
    /\ UNCHANGED <<proc_fd, lock_path, flock_holder>>

\* lock_file = open(lock_file_path, 'w'); an error ends in sys.exit(1)
OpenLockFile(p, ok) ==
    /\ proc_pc[p] = "svc_open"
    /\ IF ok
       THEN /\ proc_fd' = [proc_fd EXCEPT ![p] =
                             IF lock_path # 0 THEN lock_path ELSE FreshInode]
            /\ lock_path' = IF lock_path # 0 THEN lock_path ELSE FreshInode
            /\ proc_pc' = [proc_pc EXCEPT ![p] = "svc_flock"]
            /\ UNCHANGED <<proc_status, flock_holder>>
       ELSE /\ ProcessGone(p, 1)
            /\ UNCHANGED lock_path
    /\ proc_event' = <<"open", p>>
    /\ UNCHANGED proc_mode

\* fcntl.flock(lock_file, LOCK_EX | LOCK_NB); IOError ends in sys.exit(1)
\* before the exit handler is registered
FlockLockFile(p) ==
    /\ proc_pc[p] = "svc_flock"
    /\ IF flock_holder[proc_fd[p]] = 0
       THEN /\ flock_holder' = [flock_holder EXCEPT ![proc_fd[p]] = p]
            /\ proc_pc' = [proc_pc EXCEPT ![p] = "svc_locked"]
            /\ UNCHANGED <<proc_status, proc_fd>>
       ELSE ProcessGone(p, 1)
    /\ proc_event' = <<"flock", p>>
    /\ UNCHANGED <<proc_mode, lock_path>>

\* the PID is written, cleanup_lock is registered and run_service() is
\* called; when ScreenshotUtilService() raises, run_service calls sys.exit(1)
\* and the exit handler runs
RunService(p, ok) ==
    /\ proc_pc[p] = "svc_locked"
    /\ proc_pc' = [proc_pc EXCEPT ![p] = IF ok THEN "service" ELSE "cleanup_unlock"]
    /\ proc_status' = [proc_status EXCEPT ![p] = IF ok THEN -1 ELSE 1]
    /\ proc_event' = <<"run_service", p>>
    /\ UNCHANGED <<proc_mode, proc_fd, lock_path, flock_holder>>

\* The service ends.  "interrupt": KeyboardInterrupt, run_service calls
\* sys.exit(0) and the exit handler runs.  "terminated": the process is ended
\* from outside the interpreter (quit_app's pkill and application terminate,
\* or a signal) and no exit handler runs.
ServiceExit(p, kind) ==
    /\ proc_pc[p] = "service"
    /\ IF kind = "interrupt"
       THEN /\ proc_pc' = [proc_pc EXCEPT ![p] = "cleanup_unlock"]
            /\ proc_status' = [proc_status EXCEPT ![p] = 0]
            /\ UNCHANGED <<proc_fd, flock_holder>>
       ELSE ProcessGone(p, 0)
    /\ proc_event' = <<"service_exit", p>>
    /\ UNCHANGED <<proc_mode, lock_path>>

\* cleanup_lock: fcntl.flock(lock_file, fcntl.LOCK_UN)
CleanupUnlock(p) ==
    /\ proc_pc[p] = "cleanup_unlock"
    /\ flock_holder' = [i \in Inodes |->
                          IF flock_holder[i] = p THEN 0 ELSE flock_holder[i]]
    /\ proc_pc' = [proc_pc EXCEPT ![p] = "cleanup_close"]
    /\ proc_event' = <<"unlock", p>>
    /\ UNCHANGED <<proc_mode, proc_fd, proc_status, lock_path>>

\* cleanup_lock: lock_file.close()
CleanupClose(p) ==
    /\ proc_pc[p] = "cleanup_close"
    /\ proc_fd' = [proc_fd EXCEPT ![p] = 0]
    /\ proc_pc' = [proc_pc EXCEPT ![p] = "cleanup_remove"]
    /\ proc_event' = <<"close", p>>
    /\ UNCHANGED <<proc_mode, proc_status, lock_path, flock_holder>>

\* cleanup_lock: os.remove(lock_file_path), whatever file the path names
\* now; an error is swallowed.  The process is gone afterwards.
CleanupRemove(p) ==
    /\ proc_pc[p] = "cleanup_remove"
    /\ lock_path' = 0
    /\ proc_pc' = [proc_pc EXCEPT ![p] = "none"]
    /\ proc_event' = <<"remove", p>>
    /\ UNCHANGED <<proc_mode, proc_fd, proc_status, flock_holder>>

\* a default-UI or direct-capture process ends: sys.exit(app.exec())
AppExit(p) ==
    /\ proc_pc[p] \in {"ui", "direct"}
    /\ ProcessGone(p, 0)
    /\ proc_event' = <<"app_exit", p>>
    /\ UNCHANGED <<proc_mode, lock_path>>

RunNext ==
    \/ \E p \in Procs, entry \in Entries, service \in BOOLEAN, direct \in BOOLEAN :
          Launch(p, entry, service, direct)
    \/ \E p \in Procs, ok \in BOOLEAN : OpenLockFile(p, ok)
    \/ \E p \in Procs : FlockLockFile(p)
    \/ \E p \in Procs, ok \in BOOLEAN : RunService(p, ok)
    \/ \E p \in Procs, kind \in {"interrupt", "terminated"} : ServiceExit(p, kind)
    \/ \E p \in Procs : CleanupUnlock(p)
    \/ \E p \in Procs : CleanupClose(p)
    \/ \E p \in Procs : CleanupRemove(p)
    \/ \E p \in Procs : AppExit(p)

(***************************************************************************)
(*                             Specifications                              *)
(***************************************************************************)

Init == DaInit /\ CapInit /\ SvcInit /\ RunInit

Next ==
    \/ DaNext /\ UNCHANGED <<cap_vars, svc_vars, hk_vars, run_vars>>
    \/ CapNext /\ UNCHANGED <<da_vars, svc_vars, hk_vars, run_vars>>
    \/ WindowsNext /\ UNCHANGED <<da_vars, svc_vars, hk_vars, run_vars>>
    \/ DirectNext /\ UNCHANGED <<da_vars, svc_vars, hk_vars, run_vars>>
    \/ SvcNext /\ UNCHANGED <<da_vars, cap_vars, run_vars>>
    \/ RunNext /\ UNCHANGED <<da_vars, cap_vars, svc_vars, hk_vars>>

Spec == Init /\ [][Next]_vars

\* the DrawingArea alone, on the platform the utility is written for
InitDraw ==
    Init /\ is_macos = TRUE /\ parent_kind = "ScreenshotApp" /\ prefs_file = NoFile

NextDraw == DaNext /\ UNCHANGED <<cap_vars, svc_vars, hk_vars, run_vars>>

SpecDraw == InitDraw /\ [][NextDraw]_vars

\* the overlay with its main window, on either platform
InitCapture == Init /\ parent_kind = "ScreenshotApp" /\ prefs_file = NoFile

NextCapture == CapNext /\ UNCHANGED <<da_vars, svc_vars, hk_vars, run_vars>>

SpecCapture == InitCapture /\ [][NextCapture]_vars

\* the default UI with its windows and files, on either platform
NextWindows ==
    WindowsNext /\ UNCHANGED <<da_vars, svc_vars, hk_vars, run_vars>>

SpecWindows == InitCapture /\ [][NextWindows]_vars

\* the background service (macOS), from a first launch with no preferences
\* file or with the default one
InitService == Init /\ is_macos = TRUE /\ parent_kind = "ScreenshotApp"

NextService == SvcNext /\ UNCHANGED <<da_vars, cap_vars, run_vars>>

SpecService == InitService /\ [][NextService]_vars

\* the processes started from the two entry points, on macOS
InitRun ==
    Init /\ is_macos = TRUE /\ parent_kind = "ScreenshotApp" /\ prefs_file = NoFile

\* run.py --direct-capture: the overlay with its DirectCaptureHandler parent,
\* on either platform
InitDirect ==
    Init /\ parent_kind = "DirectCaptureHandler" /\ prefs_file = NoFile

NextDirect == DirectNext /\ UNCHANGED <<da_vars, svc_vars, hk_vars, run_vars>>

SpecDirect == InitDirect /\ [][NextDirect]_vars

NextRun == RunNext /\ UNCHANGED <<da_vars, cap_vars, svc_vars, hk_vars>>

SpecRun == InitRun /\ [][NextRun]_vars

(***************************************************************************)
(*                          Claims: capture overlay                        *)
(***************************************************************************)

\* the places of take_screenshot and _take_direct_screenshot that report the
\* result of the strategy chain
ChainVias == {"native", "invalid_dimensions", "invalid_crop", "crop",
              "crop_error", "direct", "all_failed"}

\* the calls of on_capture_complete made by the strategy chain in this session
ChainCallbacks == SelectSeq(callbacks, LAMBDA c : c.via \in ChainVias)

\* position of a strategy in the order the specification gives
StrategyRank(sname) ==
    CASE sname = "native" -> 1
      [] sname = "crop" -> 2
      [] sname = "qt" -> 3
      [] sname = "pyautogui" -> 4
      [] OTHER -> 0

\* the strategies are tried in the order native, crop, qt, pyautogui
InSpecOrder(atts) ==
    \A i \in 1 .. Len(atts) : \A j \in 1 .. Len(atts) :
        i < j => StrategyRank(atts[i]) < StrategyRank(atts[j])

\* an image that is delivered comes from the last strategy tried, so every
\* earlier strategy produced none
DeliveredByLast(atts, cbs) ==
    \A i \in 1 .. Len(cbs) :
        cbs[i].img.present =>
            /\ Len(atts) > 0
            /\ cbs[i].img.src = atts[Len(atts)]

\* C1 (as stated): after a release with an accepted selection the strategies
\* are tried in the order native, crop, Qt grab, pyautogui, a strategy only
\* after every earlier one gave no image, and on macOS the native command is
\* tried for every accepted selection.
C1_StrategyOrder ==
    Len(ChainCallbacks) > 0 =>
        /\ InSpecOrder(attempts)
        /\ DeliveredByLast(attempts, ChainCallbacks)
        /\ is_macos => (Len(attempts) > 0 /\ attempts[1] = "native")

\* the strategies a total failure has to have gone through
AllStrategies(macos) ==
    IF macos THEN {"native", "crop", "qt", "pyautogui"}
    ELSE {"crop", "qt", "pyautogui"}

\* C2 (as stated): after a release with an accepted selection the callback
\* gets the first image the chain produced, and gets None only after every
\* strategy was tried and failed.
C2_NoneOnlyOnTotalFailure ==
    \A i \in 1 .. Len(ChainCallbacks) :
        IF ChainCallbacks[i].img.present
        THEN DeliveredByLast(attempts, ChainCallbacks)
        ELSE \A sname \in AllStrategies(is_macos) :
                 \E j \in 1 .. Len(attempts) : attempts[j] = sname

\* C3: an Escape key press handled while the overlay waits for a press or is
\* in the middle of a drag hides the overlay, and its on_capture_complete(None)
\* is the only callback of the session, with no strategy tried, also after
\* every later event of the session.
C3_EscapeCancelsOnce ==
    (\E i \in 1 .. Len(callbacks) : callbacks[i].via = "escape") =>
        /\ ~overlay_visible
        /\ callbacks = <<CB(NoneImg, "escape")>>
        /\ attempts = <<>>

\* Escape pressed in the middle of a drag: the drag flag is still set, the
\* overlay is hidden and the one callback was delivered
C3_Witness ==
    /\ callbacks = <<CB(NoneImg, "escape")>>
    /\ is_capturing
    /\ ~overlay_visible
    /\ parent_visible

(***************************************************************************)
(*                          Claims: annotation history                     *)
(***************************************************************************)

\* C4: the annotation history always holds at least 1 and at most 20 snapshots.
C4_HistoryBounded == Len(history) >= 1 /\ Len(history) <= 20

\* a full history whose first snapshot is no longer the untouched screenshot:
\* the oldest snapshot was evicted
C4_Witness ==
    /\ Len(history) = 20
    /\ history[1] # {}
    /\ da_event \in {"commit", "commit_after_undo"}

\* C5: 0 <= history_index <= len(history) - 1 in every state, and an undo at
\* index 0 or a redo at the last index changes neither the cursor nor the
\* bitmap.
C5_CursorInBounds ==
    /\ [](history_index >= 0 /\ history_index <= Len(history) - 1)
    /\ [][(da_event' = "undo" /\ history_index = 0)
             => (history_index' = 0 /\ pixmap' = pixmap)]_vars
    /\ [][(da_event' = "redo" /\ history_index = Len(history) - 1)
             => (history_index' = history_index /\ pixmap' = pixmap)]_vars

\* the cursor at the last index of a full history after an eviction
C5_Witness ==
    /\ Len(history) = 20
    /\ history[1] # {}
    /\ history_index = 19
    /\ da_event = "commit"

\* C6: a commit made while the cursor is not at the end discards every
\* snapshot after the cursor and appends the new one: the snapshots up to the
\* cursor are kept, the new bitmap follows them, the cursor is at the last
\* index and redo has nothing to redo.
C6_CommitTruncates ==
    [][(da_event' \in {"commit", "commit_after_undo"}
          /\ history_index < Len(history) - 1)
         => /\ Len(history') = history_index + 2
            /\ SubSeq(history', 1, history_index + 1)
                  = SubSeq(history, 1, history_index + 1)
            /\ history'[Len(history')] = pixmap'
            /\ history_index' = Len(history') - 1
            /\ ~(history_index' < Len(history') - 1)]_vars

\* a commit that followed an undo has just run
C6_Witness ==
    /\ da_event = "commit_after_undo"
    /\ history_index = Len(history) - 1
    /\ Len(history) >= 2

\* C7: with a shape tool, press and move leave the bitmap unchanged and the
\* shape enters the bitmap at the left-button release; with the pen, every
\* move with the left button held paints the segment from the last point at
\* once.
C7_DrawOnRelease ==
    [][/\ (da_event' \in {"press", "move", "move_left", "release"}
             /\ tool \in ShapeTools) => pixmap' = pixmap
       /\ (da_event' \in {"commit", "commit_after_undo"} /\ tool \in ShapeTools)
             => \E p \in Points : pixmap' = pixmap \cup Span(da_start_point, p)
       /\ (da_event' = "move_left" /\ tool = "pen")
             => /\ pixmap' = pixmap \cup Span(last_point, last_point')
                /\ last_point \in pixmap'
                /\ last_point' \in pixmap']_vars

\* a drag with a shape tool is under way and nothing was painted
C7_Witness ==
    /\ da_event = "move_left"
    /\ tool \in ShapeTools
    /\ drawing
    /\ pixmap = {}

\* the branches ScreenshotUtilService.__init__ can take
StartEvents == {"startup", "startup_repair", "startup_raised"}

\* C8: save_preferences followed by load_preferences returns the record that
\* was saved: when the service starts from the file its last successful
\* save_preferences wrote, and reading the file meets no I/O error, the
\* preferences it loads equal the record that was saved.
C8_RoundTrip ==
    [][(svc_event' \in StartEvents /\ saved.valid /\ svc_read_ok')
         => /\ preferences' = saved.rec
            /\ LoadPreferences(prefs_file, TRUE) = saved.rec]_vars

\* the service restarted from a record that differs from the defaults in
\* every setting
C8_Witness ==
    /\ svc_event = "startup"
    /\ svc_read_ok
    /\ saved.valid
    /\ preferences = saved.rec
    /\ DictGet(preferences, "hotkey", PyNone) = OtherHotkey
    /\ DictGet(preferences, "save_location", PyNone) = PyStr("~/Pictures")
    /\ DictGet(preferences, "auto_launch", PyNone) = PyBool(FALSE)

\* the file holds a well-formed preferences record: an object whose hotkey
\* entry is an object
WellFormedFile(file) ==
    /\ file.exists
    /\ JsonLoad(file.toks).ok
    /\ JsonLoad(file.toks).val.t = "dict"
    /\ DictGet(JsonLoad(file.toks).val, "hotkey", PyNone).t = "dict"

\* C9: for every content of the preferences file that is not a well-formed
\* record (unparseable JSON, JSON that is not an object, an object whose
\* hotkey is missing or not an object), startup completes without an error,
\* the hotkey is the default one, and a file that holds no object at all
\* leaves every setting at its default.
C9_CorruptFallsBack ==
    [][(svc_event' \in StartEvents /\ prefs_file.exists
          /\ ~WellFormedFile(prefs_file))
         => /\ svc_state' = "running"
            /\ preferences'.t = "dict"
            /\ DictGet(preferences', "hotkey", PyNone) = DefaultHotkey
            /\ (~JsonLoad(prefs_file.toks).ok
                  \/ JsonLoad(prefs_file.toks).val.t # "dict")
                 => preferences' = DEFAULT_PREFERENCES]_vars

\* the operations that change the preferences in memory
ChangingEvents == {"toggle_auto_launch", "set_save_location",
                   "hotkey_accepted", "startup_repair"}

\* C10: after toggle_auto_launch, set_save_location choosing the default
\* folder, an accepted hotkey change or the hotkey repair at startup, when
\* the write met no I/O error, the preferences file exists and its JSON text
\* parses to exactly the record in memory.
C10_WrittenOnChange ==
    (svc_event \in ChangingEvents /\ svc_save_ok)
      => /\ prefs_file.exists
         /\ JsonLoad(prefs_file.toks) = [ok |-> TRUE, val |-> preferences]

\* auto-launch was switched off on a record with a configured hotkey, and
\* the write went through
C10_Witness ==
    /\ svc_event = "toggle_auto_launch"
    /\ svc_save_ok
    /\ svc_state = "running"
    /\ DictGet(preferences, "auto_launch", PyNone) = PyBool(FALSE)
    /\ DictGet(preferences, "hotkey", PyNone) = OtherHotkey
    /\ prefs_file = FileOf(DumpVal(preferences))

(***************************************************************************)
(*                            Claims: processes                            *)
(***************************************************************************)

\* C11: run.py selects one run mode for every combination of flags:
\* --service starts the service branch (also with --direct-capture),
\* --direct-capture without --service starts direct capture, and neither
\* flag starts the default UI.
C11_RunModeSelection ==
    [][\A p \in Procs, service \in BOOLEAN, direct \in BOOLEAN :
         proc_event' = <<"launch", p, "run.py", service, direct>>
           => /\ proc_mode'[p] = (IF service THEN "service"
                                  ELSE IF direct THEN "direct" ELSE "ui")
              /\ proc_pc'[p] = (IF service THEN "svc_open"
                                ELSE IF direct THEN "direct" ELSE "ui")]_vars

\* run.py was started with both flags and took the service branch
C11_Witness ==
    \E p \in Procs :
        /\ proc_event = <<"launch", p, "run.py", TRUE, TRUE>>
        /\ proc_mode[p] = "service"

\* the processes running as the background service
Services == {p \in Procs : proc_pc[p] = "service"}

\* C18: at most one process runs as the background service at any time,
\* and a launch whose flock finds another process holding the lock exits
\* with status 1 without starting the service.
C18_SingleService ==
    /\ [](Cardinality(Services) <= 1)
    /\ [][\A p \in Procs :
            (proc_event' = <<"flock", p>> /\ flock_holder[proc_fd[p]] # 0)
              => proc_pc'[p] = "none" /\ proc_status'[p] = 1]_vars

(***************************************************************************)
(*                          Claims: direct capture                         *)
(***************************************************************************)

\* C12: in direct-capture mode no main window is ever shown: the overlay's
\* parent widget stays hidden from launch to exit, for every outcome,
\* failure of the background screenshot included, so that the overlay and
\* the annotation window are the only windows that become visible.
C12_NoMainWindow ==
    parent_kind = "DirectCaptureHandler" => ~parent_visible

(***************************************************************************)
(*                     Claims: files, failures, windows                    *)
(***************************************************************************)

\* the files with screenshot pixels that the capture pipeline left on disk
PipelineFiles == session_files \ {"saved_image"}

\* C13: a screenshot is not persisted until an explicit save: once the
\* completion callback has been invoked, no file written by the capture
\* pipeline and holding screenshot pixels is on disk (every temporary file
\* of the acquisition has been removed), whether or not Save As has run.
C13_NoPersistenceBeforeSave ==
    Len(callbacks) > 0 => PipelineFiles = {}

\* the background methods start_capture goes through on the platform
FullChain == IF is_macos THEN <<"native", "qt", "pyautogui">>
             ELSE <<"qt", "pyautogui">>

\* the calls in cbs that carry no image
NoneCalls(cbs) == SelectSeq(cbs, LAMBDA c : ~c.img.present)

\* C14: no failure of a capture step escapes as an uncaught exception.  In
\* start_capture a failed method is followed by the next one, and when all
\* have failed on_capture_complete(None) is called; in the region
\* acquisition a failed native capture is followed by the crop, and a failed
\* crop by on_capture_complete(None); every on_capture_complete(None) adds one
\* status-bar message of the main window, which is shown.
C14_FailuresAreReported ==
    [][/\ ~uncaught'
       /\ (ov_start_calls' = ov_start_calls + 1) =>
             IF background_image'.present
             THEN /\ overlay_visible'
                  /\ background_image'.src = bg_attempts'[Len(bg_attempts')]
                  /\ SubSeq(FullChain, 1, Len(bg_attempts')) = bg_attempts'
             ELSE /\ bg_attempts' = FullChain
                  /\ callbacks' = <<CB(NoneImg, "no_background")>>
                  /\ status_messages' = 1
                  /\ parent_visible'
       /\ (Len(attempts') > Len(attempts)) =>
             /\ Len(callbacks') > Len(callbacks)
             /\ attempts' \in {<<"native">>, <<"native", "crop">>, <<"crop">>}
             /\ (attempts' = <<"native">>) => AnyImage(callbacks')
       /\ (Len(callbacks') > Len(callbacks) /\ overlay_visible) =>
             /\ status_messages' = status_messages
                   + Len(NoneCalls(callbacks')) - Len(NoneCalls(callbacks))
             /\ parent_visible']_vars

\* on macOS the native region capture failed, the crop raised, and the main
\* window shows the one status message of on_capture_complete(None)
C14_Witness ==
    /\ attempts = <<"native", "crop">>
    /\ callbacks = <<CB(NoneImg, "crop_error")>>
    /\ status_messages = 1
    /\ parent_visible
    /\ ~uncaught

\* the intersection of the global selection rectangle g = (x, y, w, h) with
\* the bitmap [0, W) x [0, H), as a box (x1, y1, x2, y2)
Intersection(g, bg) ==
    [x1 |-> Max(g.x, 0), y1 |-> Max(g.y, 0),
     x2 |-> Min(g.x + g.w, bg.w), y2 |-> Min(g.y + g.h, bg.h)]

\* the vias of the calls the crop-from-bitmap strategy makes when the crop
\* itself does not raise
CropVias == {"crop", "invalid_dimensions", "invalid_crop"}

\* C15: click-drag produces the expected crop rectangle.  Whenever a release
\* is answered by the crop-from-bitmap strategy, the image handed to
\* on_capture_complete is the intersection of the global selection rectangle
\* with the bitmap, and None when that intersection is empty.
C15_CropIsIntersection ==
    [][(/\ Len(callbacks') > Len(callbacks)
        /\ callbacks'[Len(callbacks')].via \in CropVias) =>
          LET g == GlobalRect(SelectionRect(start_point, end_point'), origin)
              b == Intersection(g, background_image)
              img == callbacks'[Len(callbacks')].img
          IN  IF b.x2 <= b.x1 \/ b.y2 <= b.y1
              THEN img = NoneImg
              ELSE img = Img("crop", b.x1, b.y1, b.x2 - b.x1, b.y2 - b.y1)]_vars

\* C16: the selection is scoped to one capture gesture.  A start_capture
\* that shows the overlay leaves the start point, the end point and
\* is_capturing reset; is_capturing is set only by a press delivered to the
\* overlay of the current session, which sets both points to the pressed
\* position; and a release acts (a strategy is tried, or a call other than a
\* cancellation is made) only on a selection begun that way, on the rectangle
\* between that start point and the released position.
C16_SelectionScopedToSession ==
    [][/\ (ov_start_calls' = ov_start_calls + 1 /\ overlay_visible') =>
             /\ start_point' = NullPoint
             /\ end_point' = NullPoint
             /\ ~is_capturing'
       /\ (~is_capturing /\ is_capturing') =>
             /\ overlay_visible
             /\ ov_start_calls' = ov_start_calls
             /\ start_point' = end_point'
       /\ (\/ Len(attempts') > Len(attempts)
           \/ /\ Len(callbacks') > Len(callbacks)
              /\ callbacks'[Len(callbacks')].via \notin {"escape", "no_background"}) =>
             /\ overlay_visible
             /\ is_capturing
             /\ ~is_capturing'
             /\ start_point' = start_point]_vars

\* a second session of the default UI: the annotation window of a completed
\* capture is open, and the overlay is shown again with the selection reset
C16_Witness ==
    /\ overlay_visible
    /\ annotation_window = "open"
    /\ callbacks = <<>>
    /\ start_point = NullPoint
    /\ end_point = NullPoint
    /\ ~is_capturing

\* the calls of on_capture_complete made by a step; a start_capture of the
\* overlay begins a new session history
AddedCalls ==
    IF ov_start_calls' = ov_start_calls + 1
    THEN callbacks'
    ELSE SubSeq(callbacks', Len(callbacks) + 1, Len(callbacks'))

\* C19: ScreenshotApp.on_capture_complete(None) creates no annotation window
\* and shows exactly one status-bar message: a step of the default UI whose
\* calls of on_capture_complete all carry None leaves annotation_window as
\* it was and adds one status message for each call.
C19_NoneCallFrame ==
    [][(/\ parent_kind = "ScreenshotApp"
        /\ AddedCalls # <<>>
        /\ ~AnyImage(AddedCalls)) =>
          /\ annotation_window' = annotation_window
          /\ status_messages' =
                (IF ov_start_calls' = ov_start_calls + 1
                 THEN 0 ELSE status_messages) + Len(AddedCalls)]_vars

\* the annotation window of an earlier capture is open and the session that
\* followed was cancelled: one call with None, one status message
C19_Witness ==
    /\ parent_kind = "ScreenshotApp"
    /\ annotation_window = "open"
    /\ callbacks = <<CB(NoneImg, "escape")>>
    /\ status_messages = 1

\* C20: a call to ScreenshotApp.start_capture invokes the overlay's
\* start_capture exactly once, and the invocation has happened when
\* ScreenshotApp.start_capture returns: the step that is the call (it hides
\* the main window) ends with one call of the overlay's start_capture
\* counted, and no later step of that capture adds another.
C20_StartedOnReturn ==
    [][/\ (parent_kind = "ScreenshotApp" /\ parent_visible /\ ~capture_timer
           /\ ~parent_visible' /\ ~overlay_visible') => ov_start_calls' = 1
       /\ (parent_kind = "ScreenshotApp") => ov_start_calls' <= 1]_vars

(***************************************************************************)
(*                       Claims: service threads                           *)
(***************************************************************************)

\* C17: a hotkey activation detected on the listener thread is handed off
\* into the main loop: every step of the service's take_screenshot (the
\* launch of the capture, the notification) runs on the main-loop thread.
C17_HandoffToMainLoop ==
    \A c \in service_calls : c.thread = "main"

(***************************************************************************)
(*                     Claims: capture session protocol                    *)
(***************************************************************************)

\* C21: in every capture session on_capture_complete is invoked exactly
\* once: never more than once, and once when the session is over (the
\* overlay's start_capture has run and the overlay is not shown).
C21_ExactlyOneCallback ==
    /\ Len(callbacks) <= 1
    /\ (ov_start_calls = 1 /\ ~overlay_visible /\ ~uncaught) =>
          Len(callbacks) = 1

\* C22: the overlay becomes visible only after a non-empty full-desktop
\* background bitmap has been acquired: it is shown only by a start_capture
\* that got one, and while it is shown the bitmap is there; a start_capture
\* whose background methods all fail leaves the overlay hidden, shows the
\* parent and invokes on_capture_complete(None) once.
C22_OverlayNeedsBackground ==
    [][/\ (~overlay_visible /\ overlay_visible') =>
             /\ ov_start_calls' = ov_start_calls + 1
             /\ background_image'.present
             /\ background_image'.w > 0
             /\ background_image'.h > 0
       /\ overlay_visible' => background_image'.present
       /\ (ov_start_calls' = ov_start_calls + 1
              /\ ~background_image'.present) =>
             /\ ~overlay_visible'
             /\ parent_visible'
             /\ callbacks' = <<CB(NoneImg, "no_background")>>]_vars

\* every background method failed: the session is over before the overlay
\* was shown, with its one call and the parent shown
C22_Witness ==
    /\ ov_start_calls = 1
    /\ ~background_image.present
    /\ bg_attempts \in {<<"native", "qt", "pyautogui">>, <<"qt", "pyautogui">>}
    /\ ~overlay_visible
    /\ parent_visible
    /\ callbacks = <<CB(NoneImg, "no_background")>>

\* C23: on mouse release the overlay hides itself first: whatever the
\* outcome of a release, the overlay is already hidden at the moment
\* on_capture_complete is invoked.
C23_HiddenBeforeCallback ==
    \A i \in 1 .. Len(callbacks) : ~callbacks[i].shown

\* C24: a release whose normalized selection rectangle is less than 10
\* pixels wide or less than 10 pixels high results in
\* on_capture_complete(None) with no acquisition strategy attempted; every
\* selection of at least 10 x 10 pixels proceeds to acquisition.
C24_TooSmallThreshold ==
    [][(is_capturing /\ ~is_capturing' /\ ov_start_calls' = ov_start_calls) =>
          LET rect == SelectionRect(start_point, end_point')
          IN  IF RectWidth(rect) < 10 \/ RectHeight(rect) < 10
              THEN /\ attempts' = attempts
                   /\ Len(callbacks') = Len(callbacks) + 1
                   /\ callbacks'[Len(callbacks')].img = NoneImg
                   /\ callbacks'[Len(callbacks')].via = "too_small"
              ELSE Len(attempts') > Len(attempts)]_vars

\* on macOS a selection exactly 10 pixels wide was released: the native
\* region capture is skipped and the crop from the bitmap is the strategy
\* tried
C24_Witness ==
    /\ is_macos
    /\ ~overlay_visible
    /\ RectWidth(SelectionRect(start_point, end_point)) = 10
    /\ RectHeight(SelectionRect(start_point, end_point)) >= 10
    /\ attempts = <<"crop">>
    /\ Len(callbacks) = 1

\* C25: whenever the crop strategy calls crop on the background bitmap of
\* size W x H, the crop box (x1, y1, x2, y2) satisfies 0 <= x1 < x2 <= W and
\* 0 <= y1 < y2 <= H: every image that comes from the crop of the session's
\* bitmap is a non-empty region inside it.
C25_CropBoxInBounds ==
    \A i \in 1 .. Len(callbacks) :
        (callbacks[i].via = "crop") =>
            /\ background_image.present
            /\ callbacks[i].img.present
            /\ 0 <= callbacks[i].img.x
            /\ 0 < callbacks[i].img.w
            /\ callbacks[i].img.x + callbacks[i].img.w <= background_image.w
            /\ 0 <= callbacks[i].img.y
            /\ 0 < callbacks[i].img.h
            /\ callbacks[i].img.y + callbacks[i].img.h <= background_image.h

\* a selection that begins left of the bitmap (negative global x) and one
\* that extends past its right edge were both cropped: the crop holds less
\* than the selection
C25_Witness ==
    /\ Len(callbacks) = 1
    /\ callbacks[1].via = "crop"
    /\ \/ origin.x < 0 /\ callbacks[1].img.x = 0
       \/ callbacks[1].img.x + callbacks[1].img.w = background_image.w
    /\ callbacks[1].img.w < RectWidth(SelectionRect(start_point, end_point))

\* C26: the background bitmap is acquired by a fallback chain in fixed
\* order (macOS: native screencapture, the Qt grab, pyautogui; elsewhere:
\* the Qt grab, pyautogui).  The methods tried by the session's
\* start_capture are a beginning of that chain, a method that returned an
\* image (it left its debug copy) is the last one tried, the bitmap kept is
\* the result of the last one tried, and with no bitmap the whole chain ran.
C26_BackgroundChainOrder ==
    (ov_start_calls = 1) =>
        /\ Len(bg_attempts) >= 1
        /\ Len(bg_attempts) <= Len(FullChain)
        /\ bg_attempts = SubSeq(FullChain, 1, Len(bg_attempts))
        /\ IF background_image.present
           THEN background_image.src = bg_attempts[Len(bg_attempts)]
           ELSE bg_attempts = FullChain
        /\ ("screenshot_debug" \in session_files) =>
              background_image.src = "native"
        /\ ("combined_screenshot" \in session_files) =>
              background_image.src = "qt"

\* on macOS the native screenshot returned nothing and the Qt grab gave the
\* bitmap the overlay is shown over
C26_Witness ==
    /\ is_macos
    /\ ov_start_calls = 1
    /\ overlay_visible
    /\ bg_attempts = <<"native", "qt">>
    /\ background_image.src = "qt"

\* C27: in default UI mode the main window, hidden by start_capture, is
\* shown again in every outcome of the capture: while the application runs
\* and no capture is under way (the delayed start is not pending and the
\* overlay is not shown), the main window is visible.
C27_MainWindowReturns ==
    (parent_kind = "ScreenshotApp" /\ app_running /\ ~capture_timer
        /\ ~overlay_visible) =>
        parent_visible

\* a capture ended with an image: the overlay is gone, the annotation
\* window is open and the main window is back
C27_Witness ==
    /\ parent_kind = "ScreenshotApp"
    /\ ov_start_calls = 1
    /\ ~capture_timer
    /\ ~overlay_visible
    /\ Len(callbacks) = 1
    /\ callbacks[1].img.present
    /\ annotation_window = "open"
    /\ parent_visible

\* C28: after any sequence of captures and window closes,
\* ScreenshotApp.annotation_window is None exactly when no annotation window
\* opened by the app is still open.
C28_AttributeTracksWindows ==
    (parent_kind = "ScreenshotApp") =>
        ((annotation_window = "None") <=> (open_annotations = 0))

\* C29: once HotkeyListener.stop() has returned, the listener it stopped
\* triggers no further capture: a key handled by a listener thread that
\* stop() left behind (its join(0.5) timed out) makes no take_screenshot
\* call.
C29_StoppedListenerSilent ==
    (svc_event = "old_listener_key_press") => (service_calls = {})

\* C30: open_hotkey_settings changes the preferences only when the dialog
\* is accepted, and then only the hotkey entry: save_location and
\* auto_launch are as they were; when the dialog is cancelled or fails, the
\* preferences in memory, the preferences file and the hotkey listener are
\* unchanged.
C30_OnlyHotkeyChanges ==
    [][/\ (svc_event' = "hotkey_accepted") =>
             \A k \in {"save_location", "auto_launch"} :
                /\ DictHas(preferences', k) = DictHas(preferences, k)
                /\ DictGet(preferences', k, PyNone) =
                      DictGet(preferences, k, PyNone)
       /\ (svc_event' \in {"hotkey_cancelled", "hotkey_error"}) =>
             UNCHANGED <<preferences, prefs_file, hotkey_listener>>]_vars

\* an accepted dialog on a record whose auto_launch had been switched off:
\* the setting is still off, the hotkey is in place and the listener runs
\* on it
C30_Witness ==
    /\ svc_event = "hotkey_accepted"
    /\ svc_state = "running"
    /\ DictGet(preferences, "auto_launch", PyNone) = PyBool(FALSE)
    /\ DictHas(preferences, "save_location")
    /\ hotkey_listener = ListenerStart(preferences)

\* C31: in every state of the running service the launch-agent plist is
\* installed exactly when the auto_launch preference is set, and the title
\* of the Auto Launch menu item shows the same setting.
C31_LaunchAgentFollowsPreference ==
    (svc_state = "running") =>
        LET setting == Truthy(DictGet(preferences, "auto_launch", PyBool(TRUE)))
        IN  /\ plist_installed <=> setting
            /\ auto_launch_title = AutoLaunchStatus(setting)

\* the bitmap, the history and the cursor of the drawing area
DaSnapshotState == [pm |-> pixmap, h |-> history, i |-> history_index]

\* C32: undo and redo are inverse.  In any state with no gesture in
\* progress, if history_index > 0 then undo followed by redo restores the
\* bitmap, the history and the cursor exactly, and if history_index <
\* len(history) - 1 then redo followed by undo does the same.
C32_UndoRedoInverse ==
    ~drawing =>
        LET u == UndoResult(pixmap, history, history_index)
            r == RedoResult(pixmap, history, history_index)
        IN  /\ (history_index > 0) =>
                  RedoResult(u.pm, u.h, u.i) = DaSnapshotState
            /\ (history_index < Len(history) - 1) =>
                  UndoResult(r.pm, r.h, r.i) = DaSnapshotState

\* the cursor is inside the history after an undo, no gesture is in
\* progress, and the snapshot before the cursor differs from the bitmap:
\* undo and redo both apply and undo changes the bitmap
C32_Witness ==
    /\ ~drawing
    /\ da_event = "undo"
    /\ history_index > 0
    /\ history_index < Len(history) - 1
    /\ history[(history_index - 1) + 1] # pixmap

\* C33: whenever no drawing gesture is in progress, the displayed bitmap is
\* the snapshot history[history_index], after any sequence of gestures,
\* tool changes, undo and redo, undo or redo in the middle of a gesture
\* included.
C33_BitmapIsCursorSnapshot ==
    ~drawing =>
        /\ history_index >= 0
        /\ history_index < Len(history)
        /\ pixmap = history[history_index + 1]

\* a gesture released after an undo: the forward history was dropped and
\* the drawn bitmap is the last snapshot
C33_Witness ==
    /\ ~drawing
    /\ da_event = "commit_after_undo"
    /\ history_index = Len(history) - 1
    /\ history_index > 0
    /\ pixmap # history[history_index]
    /\ pixmap = history[history_index + 1]

\* C34: each completed left-button gesture (press, any number of moves,
\* release) appends exactly one snapshot to the history whatever the tool:
\* presses and moves leave the history and the cursor alone, the release
\* that ends the gesture appends the drawn bitmap after the snapshot the
\* cursor is at (the oldest snapshot leaves when there are more than
\* MaxHistory), and a single undo after it gives back the snapshot the
\* cursor was at, so a pen stroke of many segments is reverted as a whole.
\* A release with no gesture in progress changes nothing.
C34_OneSnapshotPerGesture ==
    [][/\ (da_event' \in {"press", "move", "move_left"}) =>
             UNCHANGED <<history, history_index>>
       /\ (da_event' \in {"commit", "commit_after_undo"}) =>
             LET kept == SubSeq(history, 1, history_index + 1)
                 app  == Append(kept, pixmap')
             IN  /\ drawing /\ ~drawing'
                 /\ history' = IF Len(app) > MaxHistory THEN PopFront(app)
                               ELSE app
                 /\ history_index' = Len(history') - 1
                 /\ UndoResult(pixmap', history', history_index').pm =
                       history[history_index + 1]
       /\ (da_event' = "release") =>
             UNCHANGED <<history, history_index, pixmap, drawing>>]_vars

\* a pen gesture with a move between press and release has ended: one
\* snapshot was added and the one before it differs from the bitmap
C34_Witness ==
    /\ da_event = "commit"
    /\ tool = "pen"
    /\ ~drawing
    /\ Len(history) = 2
    /\ history_index = 1
    /\ history[1] # pixmap
    /\ history[2] = pixmap

====
